---- MODULE Spec2Model ----
(***************************************************************************)
(* Model of the player-achievement flat-file store of LerkBot_Horizon      *)
(* (src/services/player_achievements_store.py): the pipe-delimited text    *)
(* format, the asyncio lock that guards each file access, the executor     *)
(* threads that read and rename, and the store's operations run as         *)
(* overlapping coroutines.                                                 *)
(*                                                                         *)
(* A string is a sequence of one-character strings, so that strip, lower,  *)
(* split, join and sorted are computed as Python computes them.            *)
(***************************************************************************)
EXTENDS Naturals, Sequences, FiniteSets, TLC

(***************************************************************************)
(* Bounds of the model.                                                    *)
(***************************************************************************)
\* Number of coroutines that may run store operations at the same time.
NumProcs == 2
\* Total number of store calls started in one behaviour.
MaxCalls == 2
\* Number of I/O failures (open, temporary file, write, rename) in one behaviour.
MaxFaults == 1
\* Number of lines of a catalog file read by load() on its own.
MaxCatLines == 3
\* Number of commands, callbacks and catalog calls in one behaviour.
MaxEvents == 3
\* Number of lines of a store file looked up by display name
MaxStoreLines == 3
\* Number of commands, callbacks and parts of callbacks in one behaviour of
\* overlapping callbacks.
MaxSteps == 7

\* Number of parts of callbacks in one behaviour of overlapping catalog forms.
MaxParts == 5

Procs == 1..NumProcs

(***************************************************************************)
(* Strings.                                                                *)
(***************************************************************************)
\* The characters of the model, in code-point order (what sorted() uses).
Chars == <<" ", "#", ",", "A", "N", "X", "_", "a", "b", "n", "x", "y", "|">>

Ord(c) == CHOOSE i \in 1..Len(Chars) : Chars[i] = c

IsSpace(c) == c = " "

\* str.lower() on one character.
LowerChar(c) ==
  CASE c = "A" -> "a"
    [] c = "N" -> "n"
    [] c = "X" -> "x"
    [] OTHER -> c

\* str.lower()
Lower(s) == [i \in 1..Len(s) |-> LowerChar(s[i])]

RECURSIVE LStrip(_)
LStrip(s) ==
  IF s # <<>> /\ IsSpace(Head(s)) THEN LStrip(Tail(s)) ELSE s

RECURSIVE RStrip(_)
RStrip(s) ==
  IF s # <<>> /\ IsSpace(s[Len(s)]) THEN RStrip(SubSeq(s, 1, Len(s) - 1)) ELSE s

\* str.strip()
Strip(s) == RStrip(LStrip(s))

\* str.startswith(c) for a one-character prefix.
StartsWith(s, c) == s # <<>> /\ Head(s) = c

\* Index of the first sep in s, or 0.
RECURSIVE FindChar(_, _, _)
FindChar(s, sep, i) ==
  IF i > Len(s) THEN 0
  ELSE IF s[i] = sep THEN i
  ELSE FindChar(s, sep, i + 1)

\* str.split(sep): always at least one part, empty parts kept.
RECURSIVE Split(_, _)
Split(s, sep) ==
  LET i == FindChar(s, sep, 1) IN
  IF i = 0 THEN <<s>>
  ELSE <<SubSeq(s, 1, i - 1)>> \o Split(SubSeq(s, i + 1, Len(s)), sep)

\* sep.join(parts)
RECURSIVE Join(_, _)
Join(parts, sep) ==
  IF parts = <<>> THEN <<>>
  ELSE IF Len(parts) = 1 THEN parts[1]
  ELSE parts[1] \o <<sep>> \o Join(Tail(parts), sep)

\* Python's string order: lexicographic by code point, a proper prefix first.
RECURSIVE StrLess(_, _)
StrLess(a, b) ==
  IF b = <<>> THEN FALSE
  ELSE IF a = <<>> THEN TRUE
  ELSE IF Head(a) # Head(b) THEN Ord(Head(a)) < Ord(Head(b))
  ELSE StrLess(Tail(a), Tail(b))

\* sorted(set of strings)
RECURSIVE Sorted(_)
Sorted(S) ==
  IF S = {} THEN <<>>
  ELSE LET m == CHOOSE x \in S : \A y \in S \ {x} : StrLess(x, y)
       IN  <<m>> \o Sorted(S \ {m})

(***************************************************************************)
(* The in-memory table: a Python dict {ckey: (ds_nickname, set)}, kept as  *)
(* the sequence of its items in insertion order.                           *)
(***************************************************************************)
Rec(ck, nick, achs) == [ckey |-> ck, nick |-> nick, achs |-> achs]

Keys(d) == {d[i].ckey : i \in 1..Len(d)}

HasKey(d, ck) == ck \in Keys(d)

\* d[ck]
Lookup(d, ck) == d[CHOOSE i \in 1..Len(d) : d[i].ckey = ck]

\* d[ck] = (nick, achs): an existing key keeps its place, a new one goes last.
DictSet(d, ck, nick, achs) ==
  IF HasKey(d, ck)
  THEN [i \in 1..Len(d) |-> IF d[i].ckey = ck THEN Rec(ck, nick, achs) ELSE d[i]]
  ELSE Append(d, Rec(ck, nick, achs))

\* Mutant: the ckey is trimmed but its case is kept.
NormalizeCkeyKeepingCase(ck) == Strip(ck)

\* _normalize_ckey: trim + lowercase.
NormalizeCkey(ck) == Lower(Strip(ck))

\* ach_id.strip().lower()
NormalizeAch(a) == Lower(Strip(a))

\* {ach.strip().lower() for ach in achs if ach.strip()}
NormalizeAchSet(achs) == {NormalizeAch(a) : a \in {b \in achs : Strip(b) # <<>>}}

(***************************************************************************)
(* The file format.  A file is the sequence of its lines, each without its *)
(* line terminator: no string of the model holds a line break, so          *)
(* writelines() of "...\n" items and readlines() agree on the lines.       *)
(***************************************************************************)
Range(q) == {q[i] : i \in 1..Len(q)}

\* Lines 63-92: the fields of one line, or skip = TRUE for a line the reader
\* ignores (blank, comment, fewer than two fields, empty ckey).
ParseLine(raw) ==
  LET line  == Strip(raw)
      parts == Split(line, "|")
      ck    == NormalizeCkey(Strip(parts[2]))
      astr  == IF Len(parts) > 2 THEN Strip(parts[3]) ELSE <<>>
      achs  == IF astr # <<>> THEN NormalizeAchSet(Range(Split(astr, ","))) ELSE {}
  IN  IF line = <<>> \/ StartsWith(line, "#") THEN [skip |-> TRUE]
      ELSE IF Len(parts) < 2 THEN [skip |-> TRUE]
      ELSE IF ck = <<>> THEN [skip |-> TRUE]
      ELSE [skip |-> FALSE, ckey |-> ck, nick |-> Strip(parts[1]), achs |-> achs]

\* Lines 47-96: the table _read_all builds from the lines it read.
RECURSIVE ParseLinesFrom(_, _)
ParseLinesFrom(lines, d) ==
  IF lines = <<>> THEN d
  ELSE LET r == ParseLine(Head(lines)) IN
       ParseLinesFrom(Tail(lines),
                      IF r.skip THEN d ELSE DictSet(d, r.ckey, r.nick, r.achs))

ParseLines(lines) == ParseLinesFrom(lines, <<>>)

\* Lines 117-118: one record as a line.
FormatLine(r) ==
  r.nick \o <<"|">> \o r.ckey \o <<"|">> \o Join(Sorted(r.achs), ",")

\* Lines 115-119: the lines _write_all prepares.
FormatLines(d) == [i \in 1..Len(d) |-> FormatLine(d[i])]

(***************************************************************************)
(* The store's operations, from the table _read_all returned to the table  *)
(* handed to _write_all (write = FALSE: the operation returns without      *)
(* calling _write_all) and the value returned.                             *)
(***************************************************************************)
Outcome(w, d, r) == [write |-> w, players |-> d, ret |-> r]

\* Python's None, as a return value: the empty tuple, which get_player_achievements
\* and get_player_achievements_by_discord_nickname never return otherwise.
None == <<>>

\* Mutant: the supplied display name is stored even when it is empty.
add_achievement_overwriting_name(players, ckey, ds_nickname, ach_id) ==
  LET normalized_ckey   == NormalizeCkey(ckey)
      normalized_ach_id == NormalizeAch(ach_id)
      current_achievements ==
        IF HasKey(players, normalized_ckey)
        THEN Lookup(players, normalized_ckey).achs ELSE {}
  IN  IF normalized_ach_id \in current_achievements
      THEN Outcome(FALSE, players, FALSE)
      ELSE Outcome(TRUE,
                   DictSet(players, normalized_ckey, ds_nickname,
                           current_achievements \cup {normalized_ach_id}),
                   TRUE)

\* Lines 229-252.
add_achievement(players, ckey, ds_nickname, ach_id) ==
  LET normalized_ckey   == NormalizeCkey(ckey)
      normalized_ach_id == NormalizeAch(ach_id)
      known == HasKey(players, normalized_ckey)
      nick  == IF known /\ ds_nickname = <<>>
               THEN Lookup(players, normalized_ckey).nick
               ELSE ds_nickname
      current_achievements ==
        IF known THEN Lookup(players, normalized_ckey).achs ELSE {}
  IN  IF normalized_ach_id \in current_achievements
      THEN Outcome(FALSE, players, FALSE)
      ELSE Outcome(TRUE,
                   DictSet(players, normalized_ckey, nick,
                           current_achievements \cup {normalized_ach_id}),
                   TRUE)

\* Lines 271-292.
remove_achievement(players, ckey, ds_nickname, ach_id) ==
  LET normalized_ckey   == NormalizeCkey(ckey)
      normalized_ach_id == NormalizeAch(ach_id)
  IN  IF ~HasKey(players, normalized_ckey)
      THEN Outcome(FALSE, players, FALSE)
      ELSE IF normalized_ach_id \notin Lookup(players, normalized_ckey).achs
      THEN Outcome(FALSE, players, FALSE)
      ELSE Outcome(TRUE,
                   DictSet(players, normalized_ckey, ds_nickname,
                           Lookup(players, normalized_ckey).achs \ {normalized_ach_id}),
                   TRUE)

\* Lines 201-210.
upsert_player(players, ckey, ds_nickname, achievements_set) ==
  Outcome(TRUE,
          DictSet(players, NormalizeCkey(ckey), ds_nickname,
                  NormalizeAchSet(achievements_set)),
          None)

\* Mutant: count_removed is incremented for every record scanned, not only
\* for those that held the id.
purge_counting_every_record(players, ach_id) ==
  LET normalized_ach_id == NormalizeAch(ach_id)
  IN  Outcome(players # <<>>,
              [i \in 1..Len(players) |->
                 [players[i] EXCEPT !.achs = @ \ {normalized_ach_id}]],
              Len(players))

\* Lines 304-320.
remove_achievement_from_all_players(players, ach_id) ==
  LET normalized_ach_id == NormalizeAch(ach_id)
      count_removed ==
        Cardinality({i \in 1..Len(players) : normalized_ach_id \in players[i].achs})
  IN  Outcome(count_removed > 0,
              [i \in 1..Len(players) |->
                 [players[i] EXCEPT !.achs = @ \ {normalized_ach_id}]],
              count_removed)

\* Mutant: a player without a record is answered with an empty set.
get_player_achievements_or_empty(players, ckey) ==
  LET normalized_ckey == NormalizeCkey(ckey)
  IN  IF ~HasKey(players, normalized_ckey)
      THEN Outcome(FALSE, players, <<{}>>)
      ELSE Outcome(FALSE, players, <<Lookup(players, normalized_ckey).achs>>)

\* Lines 155-162: the set itself is returned inside a one-element tuple, so
\* that an empty set and None stay apart.
get_player_achievements(players, ckey) ==
  LET normalized_ckey == NormalizeCkey(ckey)
  IN  IF ~HasKey(players, normalized_ckey)
      THEN Outcome(FALSE, players, None)
      ELSE Outcome(FALSE, players, <<Lookup(players, normalized_ckey).achs>>)

\* Mutant: the scan goes on after a match, so that the last match is returned.
by_discord_nickname_last_match(players, discord_nickname) ==
  LET hits == {i \in 1..Len(players) :
                 Strip(players[i].nick) = Strip(discord_nickname)}
      last == CHOOSE i \in hits : \A j \in hits : j <= i
  IN  IF hits = {}
      THEN Outcome(FALSE, players, None)
      ELSE Outcome(FALSE, players, <<players[last].ckey, players[last].achs>>)

\* Lines 177-185.
get_player_achievements_by_discord_nickname(players, discord_nickname) ==
  LET hits == {i \in 1..Len(players) :
                 Strip(players[i].nick) = Strip(discord_nickname)}
      first == CHOOSE i \in hits : \A j \in hits : i <= j
  IN  IF hits = {}
      THEN Outcome(FALSE, players, None)
      ELSE Outcome(FALSE, players, <<players[first].ckey, players[first].achs>>)

\* A call of the store: its name and arguments.
Call(name, ckey, nick, ach, achs) ==
  [name |-> name, ckey |-> ckey, nick |-> nick, ach |-> ach, achs |-> achs]

NoCall == Call("none", <<>>, <<>>, <<>>, {})

\* What call c does with the table it read.
Apply(c, players) ==
  CASE c.name = "add_achievement" ->
         add_achievement(players, c.ckey, c.nick, c.ach)
    [] c.name = "remove_achievement" ->
         remove_achievement(players, c.ckey, c.nick, c.ach)
    [] c.name = "upsert_player" ->
         upsert_player(players, c.ckey, c.nick, c.achs)
    [] c.name = "remove_achievement_from_all_players" ->
         remove_achievement_from_all_players(players, c.ach)
    [] c.name = "get_player_achievements" ->
         get_player_achievements(players, c.ckey)
    [] c.name = "get_player_achievements_by_discord_nickname" ->
         get_player_achievements_by_discord_nickname(players, c.nick)

(***************************************************************************)
(* The achievements catalog: the table {id: AchDefinition} of              *)
(* AchievementsCatalog, kept as the sequence of its values in insertion    *)
(* order, and the lines of the catalog file.                               *)
(***************************************************************************)
AchDefinition(id, title, description) ==
  [id |-> id, title |-> title, description |-> description]

\* The characters of the model that [a-z0-9_] accepts.
IdChars == {"_", "a", "b", "n", "x", "y"}

\* ACHIEVEMENT_ID_PATTERN.match(ach_id), pattern ^[a-z0-9_]+$
MatchesIdPattern(ach_id) ==
  ach_id # <<>> /\ \A i \in 1..Len(ach_id) : ach_id[i] \in IdChars

Ids(t) == {t[i].id : i \in 1..Len(t)}

\* self._catalog[ach_id] = definition
CatalogSet(t, def) ==
  IF def.id \in Ids(t)
  THEN [i \in 1..Len(t) |-> IF t[i].id = def.id THEN def ELSE t[i]]
  ELSE Append(t, def)

\* Mutant: a line with more than three fields is taken by its first three.
ParseCatalogLineLoosely(raw) ==
  LET line  == Strip(raw)
      parts == Split(line, "|")
      ach_id == Lower(Strip(parts[1]))
  IN  IF line = <<>> \/ StartsWith(line, "#") THEN [skip |-> TRUE]
      ELSE IF Len(parts) < 3 THEN [skip |-> TRUE]
      ELSE IF ~MatchesIdPattern(ach_id) THEN [skip |-> TRUE]
      ELSE [skip |-> FALSE,
            def  |-> AchDefinition(ach_id, Strip(parts[2]), Strip(parts[3]))]

\* load, lines 52-83: the definition on one line, or skip = TRUE for a line
\* load ignores (blank, comment, not three fields, id off the pattern).
ParseCatalogLine(raw) ==
  LET line  == Strip(raw)
      parts == Split(line, "|")
      ach_id == Lower(Strip(parts[1]))
  IN  IF line = <<>> \/ StartsWith(line, "#") THEN [skip |-> TRUE]
      ELSE IF Len(parts) # 3 THEN [skip |-> TRUE]
      ELSE IF ~MatchesIdPattern(ach_id) THEN [skip |-> TRUE]
      ELSE [skip |-> FALSE,
            def  |-> AchDefinition(ach_id, Strip(parts[2]), Strip(parts[3]))]

\* load, lines 45-83: the table built from the lines of the file.
RECURSIVE ParseCatalogFrom(_, _)
ParseCatalogFrom(lines, t) ==
  IF lines = <<>> THEN t
  ELSE LET r == ParseCatalogLine(Head(lines)) IN
       ParseCatalogFrom(Tail(lines), IF r.skip THEN t ELSE CatalogSet(t, r.def))

ParseCatalog(lines) == ParseCatalogFrom(lines, <<>>)

\* AchievementsCatalog: _catalog and _loaded.
Catalog(loaded, table) == [loaded |-> loaded, table |-> table]

\* __init__, lines 29-30.
NewCatalog == Catalog(FALSE, <<>>)

(***************************************************************************)
(* The file system: the store file and the temporary files beside it.      *)
(***************************************************************************)
NoFile == [exists |-> FALSE, lines |-> <<>>]

File(lines) == [exists |-> TRUE, lines |-> lines]

\* self._file_path
StorePath == <<"players_reachs.txt">>

\* Mutant: the lines are written straight into the store file.
TmpPathInPlace(n) == StorePath

\* The fresh name NamedTemporaryFile gives the temporary file of call number n.
TmpPath(n) == <<"tmp", n>>

Paths == {StorePath} \cup {TmpPath(n) : n \in 1..MaxCalls}

\* Path.replace: an atomic rename over the target.
Replace(F, src, dst) ==
  IF src = dst THEN F ELSE [F EXCEPT ![dst] = F[src], ![src] = NoFile]

\* Mutant: the temporary file of a failed write is left behind.
UnlinkSkipped(F, path) == F

\* Path.unlink
Unlink(F, path) == [F EXCEPT ![path] = NoFile]

(***************************************************************************)
(* asyncio.Lock as _file_lock uses it: _locked, the FIFO of waiting        *)
(* coroutines, and whether release() has woken the first of them (a woken  *)
(* waiter stays in the queue until it runs, and acquire() does not pass a  *)
(* non-empty queue).                                                       *)
(***************************************************************************)
FreeLock == [locked |-> FALSE, waiters |-> <<>>, woken |-> FALSE]

\* acquire() takes the lock without suspending.
CanAcquire(L) == ~L.locked /\ L.waiters = <<>>

Acquired(L) == [L EXCEPT !.locked = TRUE]

\* acquire() suspends: the coroutine joins the queue.
Enqueued(L, p) == [L EXCEPT !.waiters = Append(@, p)]

\* release(): unlock and wake the first waiter.
Released(L) == [L EXCEPT !.locked = FALSE, !.woken = (L.waiters # <<>>)]

\* The woken waiter runs: it leaves the queue and holds the lock.
Granted(L) == [locked |-> TRUE, waiters |-> Tail(L.waiters), woken |-> FALSE]

(***************************************************************************)
(* State.                                                                  *)
(***************************************************************************)
VARIABLES
  fs,       \* path -> file: the directory of the store file
  lock,     \* _file_lock
  proc,     \* per coroutine: where it is suspended, its call and its locals
  calls,    \* number of store calls started so far
  faults,   \* number of I/O failures that may still happen
  written   \* history: the complete contents the store file has held

\* The bot around the store: the catalog, the requester and the open menus.
VARIABLES
  catfs,    \* the catalog file
  cat,      \* the catalog object: _catalog and _loaded
  member,   \* the requester: roles held now, name listed in CAN_GIVES_ROLES
  ui,       \* the modals and menus that are open
  perks,    \* the sponsors file and the disposable file
  out,      \* what the last command, callback or catalog call did
  events    \* number of commands, callbacks and catalog calls so far

hvars == <<catfs, cat, member, ui, perks, out, events>>

vars ==
  <<fs, lock, proc, calls, faults, written, catfs, cat, member, ui, perks, out, events>>

Pending(v)  == [st |-> "pending",  val |-> v]
Returned(v) == [st |-> "returned", val |-> v]
Raised      == [st |-> "raised",   val |-> None]

\* A coroutine that runs no call.
IdleProc ==
  [pc      |-> "idle",     \* suspension point
   call    |-> NoCall,     \* the call and its arguments
   n       |-> 0,          \* the call's number (names its temporary file)
   read    |-> FALSE,      \* the call's _read_all has seen the store file
   buf     |-> NoFile,     \* what it saw: no file, or the lines
   players |-> <<>>,       \* the local table
   ioerr   |-> FALSE,      \* the executor's function raised
   cleanup |-> "none",     \* tmp_path.unlink: not run, "done" or "failed"
   res     |-> Pending(None),
   mutated |-> FALSE,      \* the caller has changed the set the call returned
   pre     |-> NoFile,     \* history: the store file when a call made alone started
   nwrites |-> 0]          \* history: renames the call has done

\* The state one step of coroutine p leaves behind.
World(p) == [p |-> p, pr |-> proc[p], lock |-> lock, fs |-> fs, faults |-> faults]

Commit(w) ==
  /\ proc' = [proc EXCEPT ![w.p] = w.pr]
  /\ lock' = w.lock
  /\ fs' = w.fs
  /\ faults' = w.faults

\* The call returns v / raises.
Return(w, v) == [w EXCEPT !.pr.pc = "done", !.pr.res = Returned(v), !.pr.ioerr = FALSE]

Raise(w) == [w EXCEPT !.pr.pc = "done", !.pr.res = Raised, !.pr.ioerr = FALSE]

\* Mutant: the block is left with the lock still held.
LeaveLocked(w) == w

\* Leaving an "async with _file_lock" block.
ReleaseLock(w) == [w EXCEPT !.lock = Released(@)]

(***************************************************************************)
(* _write_all, lines 109-143, from the point where the lock is held to the *)
(* next suspension: the set of states it may leave.                        *)
(***************************************************************************)
WriteBody(w) ==
  LET lines == FormatLines(w.pr.players)
      tmp   == TmpPath(w.pr.n)
      fault == [w EXCEPT !.faults = @ - 1]
  IN  \* lines 122-133: temporary file written and closed, rename submitted
      {[w EXCEPT !.fs = [@ EXCEPT ![tmp] = File(lines)], !.pr.pc = "w_exec"]}
      \cup
      \* NamedTemporaryFile raises: tmp_path is None, the error propagates
      (IF w.faults > 0 THEN {Raise(ReleaseLock(fault))} ELSE {})
      \cup
      \* writing or closing raises after k lines: unlink submitted (line 140)
      (IF w.faults > 0
       THEN {[fault EXCEPT !.fs = [@ EXCEPT ![tmp] = File(SubSeq(lines, 1, k))],
                           !.pr.pc = "u_exec"] : k \in 0..Len(lines)}
       ELSE {})

\* _write_all, line 109: entering "async with _file_lock".
EnterWrite(w) ==
  IF CanAcquire(w.lock)
  THEN WriteBody([w EXCEPT !.lock = Acquired(@)])
  ELSE {[w EXCEPT !.lock = Enqueued(@, w.p), !.pr.pc = "w_wait"]}

\* The caller of _read_all, from its return to the next suspension.
AfterRead(w) ==
  LET d == Apply(w.pr.call, w.pr.players)
  IN  IF d.write
      THEN EnterWrite([w EXCEPT !.pr.players = d.players, !.pr.res = Pending(d.ret)])
      ELSE {Return(w, d.ret)}

\* _read_all, lines 44-58, with the lock held.
ReadBody(w) ==
  IF ~w.fs[StorePath].exists
  THEN AfterRead(ReleaseLock([w EXCEPT !.pr.read = TRUE, !.pr.buf = NoFile,
                                       !.pr.players = <<>>]))
  ELSE {[w EXCEPT !.pr.pc = "r_exec"]}

\* _read_all, line 43: entering "async with _file_lock".
EnterRead(w) ==
  IF CanAcquire(w.lock)
  THEN ReadBody([w EXCEPT !.lock = Acquired(@)])
  ELSE {[w EXCEPT !.lock = Enqueued(@, w.p), !.pr.pc = "r_wait"]}

(***************************************************************************)
(* Actions: one per resumption of a coroutine and one per executor job.    *)
(***************************************************************************)
\* A handler calls the store: the coroutine runs to its first suspension.
Begin(p, c, snap) ==
  /\ proc[p].pc \in {"idle", "done"}
  /\ calls < MaxCalls
  /\ calls' = calls + 1
  /\ \E w \in EnterRead([World(p) EXCEPT
                           !.pr = [IdleProc EXCEPT !.call = c, !.n = calls + 1,
                                                   !.pre = snap]]) :
       Commit(w)
  /\ UNCHANGED written
  /\ UNCHANGED hvars

\* The lock is handed to the woken waiter, which goes on in _read_all or
\* _write_all.
WakeUp(p) ==
  /\ lock.woken
  /\ lock.waiters # <<>>
  /\ Head(lock.waiters) = p
  /\ LET w == [World(p) EXCEPT !.lock = Granted(@)]
     IN  \E v \in (IF proc[p].pc = "r_wait" THEN ReadBody(w) ELSE WriteBody(w)) :
           Commit(v)
  /\ UNCHANGED <<calls, written>>
  /\ UNCHANGED hvars

\* The executor thread runs read_file_content (lines 54-56).
ThreadRead(p) ==
  /\ proc[p].pc = "r_exec"
  /\ \/ /\ fs[StorePath].exists
        /\ proc' = [proc EXCEPT ![p].pc = "r_ready", ![p].read = TRUE,
                                 ![p].buf = fs[StorePath]]
        /\ UNCHANGED faults
     \/ /\ ~fs[StorePath].exists \/ faults > 0
        /\ proc' = [proc EXCEPT ![p].pc = "r_ready", ![p].ioerr = TRUE]
        /\ faults' = IF fs[StorePath].exists THEN faults - 1 ELSE faults
  /\ UNCHANGED <<fs, lock, calls, written>>
  /\ UNCHANGED hvars

\* _read_all resumes with the lines (lines 61-96) or the error (98-100).
ResumeRead(p) ==
  /\ proc[p].pc = "r_ready"
  /\ LET w == ReleaseLock(World(p))
     IN  \E v \in (IF proc[p].ioerr
                   THEN {Raise(w)}
                   ELSE AfterRead([w EXCEPT !.pr.players = ParseLines(w.pr.buf.lines)])) :
           Commit(v)
  /\ UNCHANGED <<calls, written>>
  /\ UNCHANGED hvars

\* The executor thread runs tmp_path.replace (line 133).
ThreadReplace(p) ==
  /\ proc[p].pc = "w_exec"
  /\ \/ /\ fs' = Replace(fs, TmpPath(proc[p].n), StorePath)
        /\ proc' = [proc EXCEPT ![p].pc = "w_ready", ![p].nwrites = @ + 1]
        /\ written' = written \cup {File(FormatLines(proc[p].players))}
        /\ UNCHANGED faults
     \/ /\ faults > 0
        /\ faults' = faults - 1
        /\ proc' = [proc EXCEPT ![p].pc = "w_ready", ![p].ioerr = TRUE]
        /\ UNCHANGED <<fs, written>>
  /\ UNCHANGED <<lock, calls>>
  /\ UNCHANGED hvars

\* _write_all resumes after the rename: it returns, or goes to line 135.
ResumeReplace(p) ==
  /\ proc[p].pc = "w_ready"
  /\ Commit(IF proc[p].ioerr
            THEN [World(p) EXCEPT !.pr.pc = "u_exec"]
            ELSE Return(ReleaseLock(World(p)), proc[p].res.val))
  /\ UNCHANGED <<calls, written>>
  /\ UNCHANGED hvars

\* The executor thread runs tmp_path.unlink (line 140); its failure is
\* swallowed (lines 141-142).
ThreadUnlink(p) ==
  /\ proc[p].pc = "u_exec"
  /\ \/ /\ fs' = Unlink(fs, TmpPath(proc[p].n))
        /\ proc' = [proc EXCEPT ![p].pc = "u_ready", ![p].cleanup = "done"]
     \/ /\ fs' = fs
        /\ proc' = [proc EXCEPT ![p].pc = "u_ready", ![p].cleanup = "failed"]
  /\ UNCHANGED <<lock, calls, faults, written>>
  /\ UNCHANGED hvars

\* _write_all re-raises (line 143).
ResumeUnlink(p) ==
  /\ proc[p].pc = "u_ready"
  /\ Commit(Raise(ReleaseLock(World(p))))
  /\ UNCHANGED <<calls, written>>
  /\ UNCHANGED hvars

\* The caller of get_player_achievements adds id a to the set it was handed
\* (line 162: its own copy).
MutateResult(p, a) ==
  /\ proc[p].pc = "done"
  /\ proc[p].call.name = "get_player_achievements"
  /\ proc[p].res.st = "returned"
  /\ proc[p].res.val # None
  /\ ~proc[p].mutated
  /\ proc' = [proc EXCEPT ![p].res.val = <<@[1] \cup {a}>>, ![p].mutated = TRUE]
  /\ UNCHANGED <<fs, lock, calls, faults, written>>
  /\ UNCHANGED hvars

\* The sponsors file and the disposable file, as the records on their lines;
\* at start-up neither exists.
NoPerks == [sponsors |-> <<>>, disposable |-> <<>>]

(***************************************************************************)
(* The bot around the store.  A command, a callback or a catalog call is   *)
(* one action; what it leaves behind is computed from the state it finds   *)
(* as a set of possible states h (I/O may fail while faults last).         *)
(***************************************************************************)
\* No command has run yet.
NoOut ==
  [op      |-> "none",     \* the handler or call
   st      |-> "none",     \* "returned" or "raised"
   reply   |-> "none",     \* the kind of message sent to the requester
   failed  |-> "none",     \* the call whose exception the handler caught
   dberr   |-> FALSE,      \* the database raised inside a query
   shown   |-> None,       \* the ckey and the ids get_reachs listed
   roles   |-> {},         \* history: the roles the requester held when it ran
   giver   |-> FALSE,      \* history: the requester's name was in CAN_GIVES_ROLES
   store0  |-> NoFile,     \* history: the store file it found
   catfs0  |-> NoFile,     \* history: the catalog file it found
   perks0  |-> NoPerks]    \* history: the sponsors and disposable files it found

\* The state a handler starts from.
Here ==
  [store  |-> fs[StorePath], catfs |-> catfs, cat |-> cat, ui |-> ui,
   perks  |-> perks, faults |-> faults,
   exc    |-> FALSE,   \* the last call raised
   dberr  |-> FALSE,   \* the database raised inside a query
   shown  |-> None,    \* the ckey and the ids get_reachs listed
   ret    |-> None]    \* what the last call returned

\* What a handler did: the state it leaves, whether it returned or raised,
\* the kind of its reply and the call whose exception it caught.
Result(h, st, reply, failed) ==
  [h |-> [h EXCEPT !.exc = FALSE, !.ret = None],
   st |-> st, reply |-> reply, failed |-> failed]

Replied(h, reply) == Result(h, "returned", reply, "none")

\* The handler or call op is over with result r, as one of at most limit
\* events.
Ended(op, r, limit) ==
  /\ events < limit
  /\ events' = events + 1
  /\ fs' = [fs EXCEPT ![StorePath] = r.h.store]
  /\ catfs' = r.h.catfs
  /\ cat' = r.h.cat
  /\ ui' = r.h.ui
  /\ perks' = r.h.perks
  /\ faults' = r.h.faults
  /\ out' = [op |-> op, st |-> r.st, reply |-> r.reply, failed |-> r.failed,
             dberr |-> r.h.dberr, shown |-> r.h.shown, roles |-> member.roles, giver |-> member.giver,
             store0 |-> fs[StorePath], catfs0 |-> catfs, perks0 |-> perks]
  /\ written' = written \cup {r.h.store}
  /\ UNCHANGED <<lock, proc, calls, member>>

\* The same, as one of the MaxEvents events of a behaviour.
Done(op, r) == Ended(op, r, MaxEvents)

\* An I/O call that may fail: it goes well, or it raises and changes nothing.
MayFail(h) == IF h.faults > 0 THEN {[h EXCEPT !.faults = @ - 1, !.exc = TRUE]} ELSE {}

\* Mutant: load() leaves the table as it is when the file is missing.
load_keeping_table(h) ==
  IF ~h.catfs.exists
  THEN {[h EXCEPT !.cat = Catalog(TRUE, h.cat.table)]}
  ELSE {[h EXCEPT !.cat = Catalog(TRUE, ParseCatalog(h.catfs.lines))]}
       \cup
       {[g EXCEPT !.cat = Catalog(TRUE, <<>>)] : g \in MayFail(h)}

\* Mutant: a failed load() keeps the entries it parsed before the failure.
load_keeping_parsed(h) ==
  IF ~h.catfs.exists
  THEN {[h EXCEPT !.cat = Catalog(TRUE, <<>>)]}
  ELSE {[h EXCEPT !.cat = Catalog(TRUE, ParseCatalog(h.catfs.lines))]}
       \cup
       {[g EXCEPT !.cat = Catalog(TRUE, ParseCatalog(SubSeq(h.catfs.lines, 1, k)))] :
          g \in MayFail(h), k \in 0..Len(h.catfs.lines)}

\* catalog.load(), lines 37-92 (no suspension point: one step).
load(h) ==
  IF ~h.catfs.exists
  THEN {[h EXCEPT !.cat = Catalog(TRUE, <<>>)]}
  ELSE {[h EXCEPT !.cat = Catalog(TRUE, ParseCatalog(h.catfs.lines))]}
       \cup
       \* lines 88-92: open or read fails
       {[g EXCEPT !.cat = Catalog(TRUE, <<>>)] : g \in MayFail(h)}

\* catalog.get_all(), lines 101-103: loads first when nothing was loaded.
get_all(h) ==
  {[g EXCEPT !.ret = IF g.exc THEN <<>> ELSE g.cat.table] :
     g \in IF h.cat.loaded THEN {h} ELSE load(h)}

\* Mutant: exists() looks the id up as given.
exists_as_given(h, ach_id) ==
  {[g EXCEPT !.ret = ~g.exc /\ ach_id \in Ids(g.cat.table)] :
     g \in IF h.cat.loaded THEN {h} ELSE load(h)}

\* catalog.exists(ach_id), lines 115-119.
exists(h, ach_id) ==
  {[g EXCEPT !.ret = ~g.exc /\ Lower(Strip(ach_id)) \in Ids(g.cat.table)] :
     g \in IF h.cat.loaded THEN {h} ELSE load(h)}

\* catalog.get(ach_id), lines 131-135: the definition, as a sequence of one,
\* or None.
get(h, ach_id) ==
  {[g EXCEPT !.ret = IF g.exc THEN None
                     ELSE SelectSeq(g.cat.table,
                                    LAMBDA d : d.id = Lower(Strip(ach_id)))] :
     g \in IF h.cat.loaded THEN {h} ELSE load(h)}

\* The call q of one of the three look-ups of the catalog, lines 94-135.
Ask(h, q) ==
  CASE q.op = "get_all" -> get_all(h)
    [] q.op = "exists"  -> exists(h, q.id)
    [] q.op = "get"     -> get(h, q.id)

\* Mutant: load() hands control to the event loop before it reads each line.
LoadAwaitsAtEachLine(h) ==
  IF h.catfs.exists
  THEN {[h EXCEPT !.cat = Catalog(h.cat.loaded,
                                  ParseCatalog(SubSeq(h.catfs.lines, 1, k)))] :
          k \in 0..(Len(h.catfs.lines) - 1)}
  ELSE {}

\* The worlds in which load() hands control to the event loop, so that
\* another coroutine runs on the table as it is then: load() is a plain
\* function and lines 32-92 hold no await, so there are none.
LoadAwaits(h) == {}

\* Mutant: get_all() returns the table itself.
ReturnsTheTable == TRUE

\* Line 103: whether the mapping get_all() returned is the object the catalog
\* keeps as its table; it is a copy of it.
SharesTable == FALSE

\* A store call made by a handler that runs while no other store call does:
\* it returns, having rewritten the file if it writes, or it raises and the
\* file is as before (ret is not read after an exception).
StoreRun(h, c) ==
  LET o == Apply(c, IF h.store.exists THEN ParseLines(h.store.lines) ELSE <<>>)
  IN  {[h EXCEPT !.store = IF o.write THEN File(FormatLines(o.players)) ELSE @,
                 !.ret = o.ret]}
      \cup {[g EXCEPT !.ret = o.ret] : g \in MayFail(h)}

\* The players of the SS14 database, by LOWER(TRIM(last_seen_user_name)).
DbPlayers == {<<"a">>, <<"b">>}

\* db.resolve_ckey_by_player_name, database.py lines 118-136: the ckey, or
\* None when no row matches and also when the query raises (lines 134-136).
resolve_ckey_by_player_name(h, player_name) ==
  {[h EXCEPT !.ret = IF Lower(Strip(player_name)) \in DbPlayers
                     THEN Lower(Strip(player_name)) ELSE None]}
  \cup {[g EXCEPT !.exc = FALSE, !.dberr = TRUE, !.ret = None] : g \in MayFail(h)}

\* A check that lets every requester through.
AnyRequester == TRUE

\* The role check every achievements handler starts with.
Allowed == "achievements" \in member.roles

\* A modal or a menu shown to the requester.
Component(kind, ckey, nick, options) ==
  [kind |-> kind, ckey |-> ckey, nick |-> nick, options |-> options]

Open(h, v) == [h EXCEPT !.ui = @ \cup {v}]

\* The modal was submitted, or the message was edited with view=None.
Close(h, v) == [h EXCEPT !.ui = @ \ {v}]

\* Lines 88-112 and 511-536: the grant menu over the catalog ids the player
\* does not hold, after the catalog was read into c.
OfferGrant(c, ckey, nick, current, err) ==
  IF c.exc THEN {Result(c, "returned", err, "catalog")}
  ELSE IF Ids(c.ret) \ current = {} THEN {Replied(c, "has_all")}
  ELSE {Replied(Open(c, Component("AchievementSelectView", ckey, nick,
                                  Ids(c.ret) \ current)), "menu")}

\* set_reach, lines 466-558.
set_reach(h, nick) ==
  IF ~Allowed THEN {Replied(h, "denied")}
  ELSE UNION {
    IF g.exc THEN {Result(g, "returned", "retry_later", "store")}
    ELSE IF g.ret = None
    THEN {Replied(Open(g, Component("CkeyInputModal", <<>>, nick, {})), "modal")}
    ELSE UNION {
      IF d.ret = None THEN {Replied(d, "not_in_db")}
      ELSE UNION {OfferGrant(c, d.ret, nick, g.ret[2], "retry_later") :
                    c \in get_all(d)} :
      d \in resolve_ckey_by_player_name(g, g.ret[1])} :
    g \in StoreRun(h, Call("get_player_achievements_by_discord_nickname",
                           <<>>, nick, <<>>, {}))}

\* CkeyInputModal.callback, lines 44-120, for modal m and the text value.
CkeyInputModal_callback(h, m, value) ==
  IF ~Allowed THEN {Replied(Close(h, m), "denied")}
  ELSE IF Strip(value) = <<>> THEN {Replied(Close(h, m), "validation")}
  ELSE UNION {
    IF d.ret = None THEN {Replied(d, "not_in_db")}
    ELSE UNION {
      IF g.exc THEN {Result(g, "returned", "exception_text", "store")}
      ELSE UNION {
        IF u.exc THEN {Result(u, "returned", "exception_text", "store")}
        ELSE UNION {OfferGrant(c, d.ret, m.nick,
                               IF g.ret = None THEN {} ELSE g.ret[1],
                               "exception_text") :
                      c \in get_all(u)} :
        u \in IF g.ret = None
              THEN StoreRun(g, Call("upsert_player", d.ret, m.nick, <<>>, {}))
              ELSE {g}} :
      g \in StoreRun(d, Call("get_player_achievements", d.ret, <<>>, <<>>, {}))} :
    d \in resolve_ckey_by_player_name(Close(h, m), Strip(Lower(Strip(value))))}

\* CkeyInputModal.callback from line 80 on, for the callback p that found its
\* player absent.
CkeyInputModal_upsert(h, p) ==
  UNION {
    IF u.exc THEN {Result(u, "returned", "exception_text", "store")}
    ELSE UNION {OfferGrant(c, p.ckey, p.nick, {}, "exception_text") :
                  c \in get_all(u)} :
    u \in StoreRun(Close(h, p), Call("upsert_player", p.ckey, p.nick, <<>>, {}))}

\* CkeyInputModal.callback up to line 80, where it awaits upsert_player for
\* a player it found absent.  _read_all (store lines 43-58) has handed the
\* file to the executor, so the callback was suspended with the lock held
\* and the store calls that queued up behind it run before its upsert: the
\* callback is kept as a component with its place in the queue.  When there
\* is no store file _read_all returns without any await, and so does the
\* read of upsert_player: the upsert follows at once.
CkeyInputModal_lookup(h, m, value) ==
  IF ~Allowed THEN {Replied(Close(h, m), "denied")}
  ELSE IF Strip(value) = <<>> THEN {Replied(Close(h, m), "validation")}
  ELSE UNION {
    IF d.ret = None THEN {Replied(d, "not_in_db")}
    ELSE UNION {
      IF g.exc THEN {Result(g, "returned", "exception_text", "store")}
      ELSE IF g.ret = None
      THEN LET p == Component("CkeyInputModal.callback", d.ret, m.nick, {events})
           IN  IF g.store.exists
               THEN {Result(Open(g, p), "suspended", "none", "none")}
               ELSE CkeyInputModal_upsert(g, p)
      ELSE UNION {OfferGrant(c, d.ret, m.nick, g.ret[1], "exception_text") :
                    c \in get_all(g)} :
      g \in StoreRun(d, Call("get_player_achievements", d.ret, <<>>, <<>>, {}))} :
    d \in resolve_ckey_by_player_name(Close(h, m), Strip(Lower(Strip(value))))}

\* AchievementSelectView.on_select, lines 165-237, for menu v and the id
\* selected.
AchievementSelectView_on_select(h, v, selected_ach_id) ==
  IF ~Allowed THEN {Replied(h, "denied")}
  ELSE UNION {
    IF g.exc THEN {Result(Close(g, v), "returned", "exception_text", "store")}
    ELSE IF g.ret # None /\ selected_ach_id \in g.ret[1]
    THEN {Replied(Close(g, v), "already")}
    ELSE {IF a.exc THEN Result(Close(a, v), "returned", "exception_text", "store")
          ELSE Replied(Close(a, v), IF a.ret THEN "ok" ELSE "already") :
            a \in StoreRun(g, Call("add_achievement", v.ckey, v.nick,
                                   selected_ach_id, {}))} :
    g \in StoreRun(h, Call("get_player_achievements", v.ckey, <<>>, <<>>, {}))}

\* remove_reach, lines 574-674.
remove_reach(h, nick) ==
  IF ~Allowed THEN {Replied(h, "denied")}
  ELSE UNION {
    IF g.exc THEN {Result(g, "returned", "retry_later", "store")}
    ELSE IF g.ret = None THEN {Replied(g, "not_found")}
    ELSE UNION {
      IF d.ret = None THEN {Replied(d, "not_in_db")}
      ELSE IF g.ret[2] = {} THEN {Replied(d, "nothing")}
      ELSE {IF c.exc THEN Result(c, "returned", "retry_later", "catalog")
            ELSE IF g.ret[2] \cap Ids(c.ret) = {} THEN Replied(c, "nothing")
            ELSE Replied(Open(c, Component("RemoveAchievementSelectView", d.ret,
                                           nick, g.ret[2] \cap Ids(c.ret))),
                         "menu") :
              c \in get_all(d)} :
      d \in resolve_ckey_by_player_name(g, g.ret[1])} :
    g \in StoreRun(h, Call("get_player_achievements_by_discord_nickname",
                           <<>>, nick, <<>>, {}))}

\* RemoveAchievementSelectView.on_select, lines 287-356.
RemoveAchievementSelectView_on_select(h, v, selected_ach_id) ==
  IF ~Allowed THEN {Replied(h, "denied")}
  ELSE UNION {
    IF g.exc THEN {Result(Close(g, v), "returned", "exception_text", "store")}
    ELSE IF g.ret = None \/ selected_ach_id \notin g.ret[1]
    THEN {Replied(Close(g, v), "not_found")}
    ELSE {IF a.exc THEN Result(Close(a, v), "returned", "exception_text", "store")
          ELSE Replied(Close(a, v), IF a.ret THEN "ok" ELSE "not_found") :
            a \in StoreRun(g, Call("remove_achievement", v.ckey, v.nick,
                                   selected_ach_id, {}))} :
    g \in StoreRun(h, Call("get_player_achievements", v.ckey, <<>>, <<>>, {}))}

\* Mutant: the ids the catalog does not know are left out of the embed.
EmbedOfKnownIds(ckey, achievements_set, catalog_all) ==
  <<ckey, achievements_set \cap Ids(catalog_all), {}>>

\* Lines 409-441: the embed of get_reachs, as the ckey, the ids listed with
\* their titles and the ids listed as unknown.
Embed(ckey, achievements_set, catalog_all) ==
  <<ckey, achievements_set \cap Ids(catalog_all),
    achievements_set \ Ids(catalog_all)>>

\* get_reachs, lines 376-451: open to every requester.
get_reachs(h, nick) ==
  UNION {
    IF g.exc THEN {Result(g, "returned", "retry_later", "store")}
    ELSE IF g.ret = None THEN {Replied(g, "not_found")}
    ELSE IF g.ret[2] = {} THEN {Replied(g, "nothing")}
    ELSE {IF c.exc THEN Result(c, "returned", "retry_later", "catalog")
          ELSE Replied([c EXCEPT !.shown = Embed(g.ret[1], g.ret[2], c.ret)],
                       "list") :
            c \in get_all(g)} :
    g \in StoreRun(h, Call("get_player_achievements_by_discord_nickname",
                           <<>>, nick, <<>>, {}))}

\* f"{ach_id}|{title}|{description}", lines 784 and 1232.
FormatCatalogLine(ach_id, title, description) ==
  ach_id \o <<"|">> \o title \o <<"|">> \o description

\* open(catalog_path).readlines(), lines 788-790, 935-936, 1200-1201.
ReadCatalogFile(h) ==
  {[h EXCEPT !.ret = h.catfs.lines]}
  \cup {[g EXCEPT !.ret = <<>>] : g \in MayFail(h)}

\* Lines 793-803, 968-980, 1240-1252: the lines go to a temporary file, which
\* is renamed over the catalog file.
WriteCatalogFile(h, lines) ==
  {[h EXCEPT !.catfs = File(lines)]} \cup MayFail(h)

\* Lines 942-957, 1207-1214: the line is an entry line whose first field is
\* ach_id.
IsLineOf(raw, ach_id) ==
  /\ Strip(raw) # <<>>
  /\ ~StartsWith(Strip(raw), "#")
  /\ Lower(Strip(Split(Strip(raw), "|")[1])) = Lower(ach_id)

\* Lines 940-959: the lines without those of ach_id.
RECURSIVE WithoutLinesOf(_, _)
WithoutLinesOf(lines, ach_id) ==
  IF lines = <<>> THEN <<>>
  ELSE (IF IsLineOf(Head(lines), ach_id) THEN <<>> ELSE <<Head(lines)>>)
       \o WithoutLinesOf(Tail(lines), ach_id)

\* Lines 1203-1238: the lines with those of ach_id rewritten.
WithLinesOf(lines, ach_id, title, description) ==
  [i \in 1..Len(lines) |->
     IF IsLineOf(lines[i], ach_id)
     THEN FormatCatalogLine(ach_id, title, description)
     ELSE lines[i]]

HasLineOf(lines, ach_id) == \E i \in 1..Len(lines) : IsLineOf(lines[i], ach_id)

\* Lines 803-823, 980-1017, 1252-1272: the file was replaced; the follow-up
\* calls run, then catalog.load(), then the success message.  An exception
\* of any of them is caught and its text sent to the requester.
ReloadAndReply(S) ==
  UNION {
    IF w.exc THEN {Result(w, "returned", "exception_text", "store")}
    ELSE {IF l.exc THEN Result(l, "returned", "exception_text", "load")
          ELSE Replied(l, "ok") :
            l \in load(w)} :
    w \in S}

\* add_reachs, lines 834-856.
add_reachs(h) ==
  IF ~Allowed THEN {Replied(h, "denied")}
  ELSE {Replied(Open(h, Component("AddReachModal", <<>>, <<>>, {})), "modal")}

\* A submitted form that waits for interaction.response.defer: it carries the
\* id, the title and the description it was submitted with.
Form(kind, ach_id, title, description) ==
  Component(kind, ach_id, title, {description})

\* AddReachModal.callback, lines 716-765: the checks, up to the await of
\* defer (line 769).
AddReachModal_check(h, m, id_value, title_value, description_value) ==
  LET ach_id      == Lower(Strip(id_value))
      title       == Strip(title_value)
      description == Strip(description_value)
  IN  IF ~Allowed THEN {Replied(Close(h, m), "denied")}
      ELSE IF \/ ach_id = <<>> \/ ~MatchesIdPattern(ach_id)
              \/ title = <<>> \/ description = <<>>
      THEN {Replied(Close(h, m), "validation")}
      ELSE {\* line 760 is outside the try block
            IF e.exc THEN Result(e, "raised", "none", "load")
            ELSE IF e.ret THEN Replied(e, "duplicate")
            ELSE Result(Open(e, Form("AddReachModal.callback",
                                     ach_id, title, description)),
                        "suspended", "none", "none") :
              e \in exists(Close(h, m), ach_id)}

\* Mutant: the form rewrites the file from the table it holds in memory.
AddReachModal_write_from_table(h, p) ==
  UNION {
    IF w.exc THEN {Result(w, "returned", "exception_text", "catalog_file")}
    ELSE ReloadAndReply({w}) :
    w \in WriteCatalogFile(Close(h, p),
            Append([i \in 1..Len(h.cat.table) |->
                      FormatCatalogLine(h.cat.table[i].id, h.cat.table[i].title,
                                        h.cat.table[i].description)],
                   FormatCatalogLine(p.ckey, p.nick, CHOOSE d \in p.options : TRUE)))}

\* AddReachModal.callback, lines 771-823: after defer the file is read, the
\* new line appended, the file replaced and the catalog reloaded, with no
\* await in between.
AddReachModal_write(h, p) ==
  UNION {
    IF r.exc THEN {Result(r, "returned", "exception_text", "catalog_file")}
    ELSE UNION {
      IF w.exc THEN {Result(w, "returned", "exception_text", "catalog_file")}
      ELSE ReloadAndReply({w}) :
      w \in WriteCatalogFile(r, Append(r.ret,
              FormatCatalogLine(p.ckey, p.nick, CHOOSE d \in p.options : TRUE)))} :
    r \in IF h.catfs.exists THEN ReadCatalogFile(Close(h, p))
          ELSE {[Close(h, p) EXCEPT !.ret = <<>>]}}

\* AddReachModal.callback, lines 716-823, when nothing else runs while it
\* awaits defer.
AddReachModal_callback(h, m, id_value, title_value, description_value) ==
  UNION {
    IF c.st = "suspended"
    THEN UNION {AddReachModal_write(c.h, p) :
                  p \in {q \in c.h.ui : q.kind = "AddReachModal.callback"}}
    ELSE {c} :
    c \in AddReachModal_check(h, m, id_value, title_value, description_value)}

\* The menu over the catalog that edit_reachs and delete_reachs open, lines
\* 1283-1326 and 1338-1381.
CatalogMenu(h, kind) ==
  IF ~Allowed THEN {Replied(h, "denied")}
  ELSE {IF c.exc THEN Result(c, "returned", "retry_later", "load")
        ELSE IF c.ret = <<>> THEN Replied(c, "empty")
        ELSE Replied(Open(c, Component(kind, <<>>, <<>>, Ids(c.ret))), "menu") :
          c \in get_all(h)}

edit_reachs(h) == CatalogMenu(h, "EditReachSelectView")

delete_reachs(h) == CatalogMenu(h, "DeleteReachSelectView")

\* EditReachSelectView.on_select, lines 1063-1086.
EditReachSelectView_on_select(h, v, selected_ach_id) ==
  IF ~Allowed THEN {Replied(h, "denied")}
  ELSE IF selected_ach_id \notin v.options THEN {Replied(h, "not_found")}
  ELSE {Replied(Open(h, Component("EditReachModal", <<>>, <<>>, {selected_ach_id})),
                "modal")}

\* EditReachModal.callback, lines 1146-1181: the checks, up to the await of
\* defer (line 1185), for the modal m of ach_id.
EditReachModal_check(h, m, ach_id, title_value, description_value) ==
  LET title       == Strip(title_value)
      description == Strip(description_value)
  IN  IF ~Allowed THEN {Replied(Close(h, m), "denied")}
      ELSE IF title = <<>> \/ description = <<>>
      THEN {Replied(Close(h, m), "validation")}
      ELSE {\* line 1176 is outside the try block
            IF e.exc THEN Result(e, "raised", "none", "load")
            ELSE IF ~e.ret THEN Replied(e, "not_found")
            ELSE Result(Open(e, Form("EditReachModal.callback",
                                     ach_id, title, description)),
                        "suspended", "none", "none") :
              e \in exists(Close(h, m), ach_id)}

\* EditReachModal.callback, lines 1187-1272: after defer the file is read,
\* the lines of the id rewritten, the file replaced and the catalog
\* reloaded, with no await in between.
EditReachModal_write(h, p) ==
  IF ~h.catfs.exists THEN {Replied(Close(h, p), "no_file")}
  ELSE UNION {
    IF r.exc THEN {Result(r, "returned", "exception_text", "catalog_file")}
    ELSE IF ~HasLineOf(r.ret, p.ckey) THEN {Replied(r, "not_found")}
    ELSE UNION {
      IF w.exc THEN {Result(w, "returned", "exception_text", "catalog_file")}
      ELSE ReloadAndReply({w}) :
      w \in WriteCatalogFile(r, WithLinesOf(r.ret, p.ckey, p.nick,
                                            CHOOSE d \in p.options : TRUE))} :
    r \in ReadCatalogFile(Close(h, p))}

\* EditReachModal.callback, lines 1146-1272, when nothing else runs while it
\* awaits defer.
EditReachModal_callback(h, m, ach_id, title_value, description_value) ==
  UNION {
    IF c.st = "suspended"
    THEN UNION {EditReachModal_write(c.h, p) :
                  p \in {q \in c.h.ui : q.kind = "EditReachModal.callback"}}
    ELSE {c} :
    c \in EditReachModal_check(h, m, ach_id, title_value, description_value)}

\* DeleteReachSelectView.on_select, lines 983-1017: the id is purged from the
\* store, then the catalog is reloaded and the success message sent.
DeleteReachSelectView_purge(h, selected_ach_id) ==
  ReloadAndReply(StoreRun(h,
    Call("remove_achievement_from_all_players", <<>>, <<>>, selected_ach_id, {})))

\* DeleteReachSelectView.on_select, lines 898-980: the checks, the read of
\* the file and its replacement, with no await in between, up to the await
\* of the purge (line 983).  The purge reads the store file in the executor
\* (store line 58): the callback is suspended there unless the store file is
\* missing, in which case the purge returns at once.
DeleteReachSelectView_rewrite(h, v, selected_ach_id) ==
  IF ~Allowed THEN {Replied(h, "denied")}
  ELSE UNION {
    IF e.exc THEN {Result(Close(e, v), "returned", "exception_text", "load")}
    ELSE IF ~e.ret THEN {Replied(Close(e, v), "not_found")}
    ELSE IF ~e.catfs.exists THEN {Replied(Close(e, v), "no_file")}
    ELSE UNION {
      IF r.exc THEN {Result(Close(r, v), "returned", "exception_text", "catalog_file")}
      ELSE IF ~HasLineOf(r.ret, selected_ach_id) THEN {Replied(Close(r, v), "not_found")}
      ELSE UNION {
        IF w.exc THEN {Result(Close(w, v), "returned", "exception_text", "catalog_file")}
        ELSE IF w.store.exists
        THEN {Result(Open(Close(w, v),
                          Component("DeleteReachSelectView.on_select",
                                    <<>>, <<>>, {selected_ach_id})),
                     "suspended", "none", "none")}
        ELSE DeleteReachSelectView_purge(Close(w, v), selected_ach_id) :
        w \in WriteCatalogFile(r, WithoutLinesOf(r.ret, selected_ach_id))} :
      r \in ReadCatalogFile(e)} :
    e \in exists(h, selected_ach_id)}

\* DeleteReachSelectView.on_select, lines 898-1017, when nothing else runs
\* while it awaits the purge.
DeleteReachSelectView_on_select(h, v, selected_ach_id) ==
  UNION {
    IF c.st = "suspended"
    THEN UNION {DeleteReachSelectView_purge(Close(c.h, p), selected_ach_id) :
                  p \in {q \in c.h.ui : q.kind = "DeleteReachSelectView.on_select"}}
    ELSE {c} :
    c \in DeleteReachSelectView_rewrite(h, v, selected_ach_id)}

\* member.name of the requester.
Requester == <<"n">>

\* CKEY_PATTERN.match(ckey), user_commands.py line 10: ^[a-zA-Z0-9_]+$
MatchesCkeyPattern(ckey) ==
  ckey # <<>> /\ \A i \in 1..Len(ckey) : LowerChar(ckey[i]) \in IdChars

\* One line of the sponsors file and one of the disposable file.
Sponsor(name, ckey, color) == [name |-> name, ckey |-> ckey, color |-> color]

Disposable(ckey, slots, tokens) == [ckey |-> ckey, slots |-> slots, tokens |-> tokens]

\* DEFAULT_COLOR, and the colour a requester may ask for.
DefaultColor == "#FF0000"

OtherColor == "#00FF00"

\* open(path, 'w') and writelines, user_commands.py lines 73-74 and 88-89:
\* the lines are written, or opening fails, or writing fails on the
\* truncated file.
Overwrite(h, file, lines) ==
  {[h EXCEPT !.perks[file] = lines]}
  \cup MayFail(h)
  \cup {[g EXCEPT !.perks[file] = <<>>] : g \in MayFail(h)}

\* update_disposable_file, lines 49-74.
update_disposable_file(h, old_ckey, new_ckey) ==
  IF h.perks.disposable = <<>> THEN {h}
  ELSE Overwrite(h, "disposable",
         [i \in 1..Len(h.perks.disposable) |->
            IF h.perks.disposable[i].ckey = old_ckey
            THEN [h.perks.disposable[i] EXCEPT !.ckey = new_ckey]
            ELSE h.perks.disposable[i]])

\* The requester's lines in the sponsors file.
OwnLines(h) ==
  {i \in 1..Len(h.perks.sponsors) : h.perks.sponsors[i].name = Requester}

\* check_is_sponsor, lines 35-46: get_sponsor_roles(ctx.author) is not empty.
check_is_sponsor == "tracked" \in member.roles

\* my_ckey, lines 93-140; an exception is reported with its text and raised
\* again.
my_ckey(h, in_channel, ckey) ==
  IF ~in_channel THEN {Replied(h, "wrong_channel")}
  ELSE IF ~MatchesCkeyPattern(ckey) THEN {Replied(h, "validation")}
  ELSE IF ~check_is_sponsor THEN {Replied(h, "not_sponsor")}
  ELSE LET lines      == h.perks.sponsors
           new_record == Sponsor(Requester, ckey, DefaultColor)
           updated    == IF OwnLines(h) = {} THEN Append(lines, new_record)
                         ELSE [i \in 1..Len(lines) |->
                                 IF i \in OwnLines(h) THEN new_record ELSE lines[i]]
           old_ckey   == lines[CHOOSE i \in OwnLines(h) : \A j \in OwnLines(h) : j <= i].ckey
       IN  UNION {
             IF w.exc THEN {Result(w, "raised", "exception_text", "sponsors_file")}
             ELSE {IF d.exc THEN Result(d, "raised", "exception_text", "disposable_file")
                   ELSE Replied(d, "ok") :
                     d \in IF OwnLines(h) = {} THEN {w}
                           ELSE update_disposable_file(w, old_ckey, ckey)} :
             w \in Overwrite(h, "sponsors", updated)}

\* change_my_name_color, lines 143-189.
change_my_name_color(h, in_channel, color_ok, color_hex) ==
  IF ~in_channel THEN {Replied(h, "wrong_channel")}
  ELSE IF ~color_ok THEN {Replied(h, "validation")}
  ELSE IF ~check_is_sponsor THEN {Replied(h, "not_sponsor")}
  ELSE IF h.perks.sponsors = <<>> THEN {Replied(h, "no_file")}
  ELSE IF OwnLines(h) = {} THEN {Replied(h, "not_found")}
  ELSE {IF w.exc THEN Result(w, "returned", "exception_text", "sponsors_file")
        ELSE Replied(w, "ok") :
          w \in Overwrite(h, "sponsors",
                  [i \in 1..Len(h.perks.sponsors) |->
                     IF i \in OwnLines(h)
                     THEN [h.perks.sponsors[i] EXCEPT !.color = color_hex]
                     ELSE h.perks.sponsors[i]])}

\* add_disposable, lines 192-253: the check is on the requester's name.
add_disposable(h, ds_nickname, slots, tokens) ==
  IF ~member.giver THEN {Replied(h, "denied")}
  ELSE LET hits == {i \in 1..Len(h.perks.sponsors) :
                      h.perks.sponsors[i].name = ds_nickname}
           ckey == h.perks.sponsors[CHOOSE i \in hits : \A j \in hits : i <= j].ckey
           old  == h.perks.disposable
           mine == {i \in 1..Len(old) : old[i].ckey = ckey}
       IN  IF hits = {} THEN {Replied(h, "not_found")}
           ELSE {IF w.exc THEN Result(w, "returned", "exception_text", "disposable_file")
                 ELSE Replied(w, "ok") :
                   w \in Overwrite(h, "disposable",
                           IF mine = {} THEN Append(old, Disposable(ckey, slots, tokens))
                           ELSE [i \in 1..Len(old) |->
                                   IF i \in mine THEN Disposable(ckey, slots, tokens)
                                   ELSE old[i]])}

\* roll, lines 256-307: nothing but the reply.
roll(h, dice_ok) ==
  {Replied(h, IF dice_ok THEN "ok" ELSE "validation")}

\* top_play_time, cogs/db_commands.py lines 137-188.
top_play_time(h, in_channel) ==
  IF ~in_channel THEN {Replied(h, "wrong_channel")}
  ELSE {Replied(h, "list")}
       \cup {Result([g EXCEPT !.dberr = TRUE], "returned", "retry_later", "database") :
               g \in MayFail(h)}

\* top_balance, cogs/db_commands.py lines 191-222: SS14Database has no
\* get_top_players_by_balance_count, so line 202 raises and the except block
\* answers.
top_balance(h, in_channel) ==
  IF ~in_channel THEN {Replied(h, "wrong_channel")}
  ELSE {Result(h, "returned", "retry_later", "database")}

(***************************************************************************)
(* What is on the requester's screen, and the guild taking a role from the *)
(* requester.                                                              *)
(***************************************************************************)
\* The open modals and menus of one kind.
Showing(kind) == {v \in ui : v.kind = kind}

\* _remove_sponsor_from_file, cogs/role_events.py lines 62-91: the lines of
\* username leave the sponsors file; an exception is logged and the file
\* stays.
RECURSIVE WithoutSponsor(_, _)
WithoutSponsor(lines, username) ==
  IF lines = <<>> THEN <<>>
  ELSE (IF Head(lines).name = username THEN <<>> ELSE <<Head(lines)>>)
       \o WithoutSponsor(Tail(lines), username)

remove_sponsor_from_file(h, username) ==
  IF h.perks.sponsors = <<>> THEN {h}
  ELSE {[h EXCEPT !.perks.sponsors = WithoutSponsor(@, username)]}
       \cup {[g EXCEPT !.exc = FALSE] : g \in MayFail(h)}

\* The guild takes the roles of class k from the requester; on_member_update
\* (cogs/role_events.py lines 94-109) reacts to the loss of a tracked role.
Revoke(k) ==
  /\ k \in member.roles
  /\ member' = [member EXCEPT !.roles = @ \ {k}]
  /\ \E w \in IF k = "tracked" THEN remove_sponsor_from_file(Here, Requester)
               ELSE {Here} :
       /\ perks' = w.perks
       /\ faults' = w.faults
  /\ UNCHANGED <<fs, lock, proc, calls, written>>
  /\ UNCHANGED <<catfs, cat, ui, out, events>>

(***************************************************************************)
(* Inputs.                                                                 *)
(***************************************************************************)
\* Store files found at start-up: none, or one written by earlier runs.
InitFiles ==
  {NoFile,
   File(<< <<"n", "|", "a", "|", "y">>,
           <<"|", "b", "|">> >>)}

\* Calls made by overlapping coroutines; ckey 'n' has no record at start-up.
ConcCalls ==
  {Call("add_achievement", ck, <<"n">>, <<"x">>, {}) :
     ck \in {<<"a">>, <<"b">>, <<"n">>}}
  \cup {Call("remove_achievement", <<"a">>, <<"n">>, <<"x">>, {}),
        Call("upsert_player", <<"a">>, <<"n">>, <<>>, {}),
        Call("remove_achievement_from_all_players", <<>>, <<>>, <<"x">>, {}),
        Call("get_player_achievements", <<"a">>, <<>>, <<>>, {})}

\* Display names a call may carry: empty, plain, padded, starting with '#',
\* holding '|'.
Nicks == {<<>>, <<"n">>, <<" ", "n">>, <<"#", "n">>, <<"n", "|", "n">>}

\* Calls that spell the ckey 'a' and the id 'x' in another case and with
\* surrounding blanks.
VariantCalls ==
  {Call(name, <<" ", "A">>, <<"n">>, <<"X", " ">>, {}) :
     name \in {"add_achievement", "remove_achievement"}}
  \cup {Call("get_player_achievements", <<" ", "A">>, <<>>, <<>>, {})}

\* Calls made one after another.
SeqCalls ==
  {Call(name, ck, nick, a, {}) :
     name \in {"add_achievement", "remove_achievement"},
     ck \in {<<"a">>, <<"b">>}, nick \in Nicks, a \in {<<"x">>, <<"y">>}}
  \cup {Call("upsert_player", <<"a">>, nick, <<>>, achs) :
          nick \in Nicks, achs \in {{}, {<<"x">>, <<"y">>}}}
  \cup {Call("remove_achievement_from_all_players", <<>>, <<>>, a, {}) :
          a \in {<<"x">>, <<"y">>}}
  \cup {Call("get_player_achievements", ck, <<>>, <<>>, {}) : ck \in {<<"a">>, <<"b">>}}
  \cup VariantCalls

\* Lines of a store file that is looked up by display name: names that
\* differ in case and in surrounding blanks, two ckeys, a comment.
NickLines ==
  {<<"n", "|", "a", "|", "y">>,
   <<"N", "|", "a", "|", "x">>,
   <<" ", "n", " ", "|", "b", "|">>,
   <<"n", "|", "b", "|", "x">>,
   <<"#", "n", "|", "a", "|", "x">>}

\* Store files of up to MaxStoreLines such lines.
NickFiles ==
  {NoFile} \cup
  {File(l) : l \in UNION {[1..k -> NickLines] : k \in 0..MaxStoreLines}}

\* Look-ups by display name.
NickCalls ==
  {Call("get_player_achievements_by_discord_nickname", <<>>, nick, <<>>, {}) :
     nick \in {<<"n">>, <<"n", " ">>, <<"N">>, <<"b">>}}

\* Calls made one after another while I/O may fail.
FaultCalls ==
  {Call("add_achievement", <<"b">>, <<"n">>, <<"y">>, {}),
   Call("remove_achievement", <<"a">>, <<"n">>, <<"x">>, {}),
   Call("upsert_player", <<"a">>, <<"n">>, <<>>, {}),
   Call("remove_achievement_from_all_players", <<>>, <<>>, <<"x">>, {})}

\* The classes of roles the checks look at: ACHIEVEMENTS_ALLOWED_ROLE_IDS
\* and TRACKED_ROLES.
RoleKinds == {"achievements", "tracked"}

\* Lines a catalog file may hold: entries, one of them in upper case and
\* padded, a comment, a blank line, lines with two and four fields, and ids
\* off the pattern.
CatLines ==
  {<<"x", "|", "X", "|", "n">>,
   <<"y", "|", "N", "|", "n">>,
   <<" ", "X", " ", "|", "a", "|", "b">>,
   <<"a", "_", "b", "|", "|">>,
   <<"#", "x", "|", "a", "|", "b">>,
   <<" ">>,
   <<"x", "|", "a">>,
   <<"b", "|", "a", "|", "b", "|", "n">>,
   <<"a", " ", "b", "|", "a", "|", "b">>,
   <<"|", "a", "|", "b">>}

\* Display names given to set_reach, remove_reach and get_reachs: one the
\* store file of InitFiles knows and one it does not.
HandlerNicks == {<<"n">>, <<"b">>}

\* Texts typed into the ckey modal: a player of the database in upper case
\* and padded, a name the database does not know, nothing.
CkeyValues == {<<" ", "A">>, <<"n">>, <<>>}

\* Texts typed into the catalog modals: a new entry, an entry whose id is in
\* the catalog in another spelling, an entry that fails validation.
FormEntries ==
  {AchDefinition(<<"b">>, <<"N">>, <<"n">>),
   AchDefinition(<<" ", "X">>, <<"a">>, <<"b">>),
   AchDefinition(<<"a", " ", "b">>, <<"a">>, <<>>)}

\* Ckeys given to my_ckey: two that match CKEY_PATTERN and one that does not.
CkeyArgs == {<<"a">>, <<"b">>, <<"a", " ", "b">>}

\* Catalog files the bot starts with: none, or two entries.
BotCatFiles ==
  {NoFile,
   File(<< <<"x", "|", "X", "|", "n">>, <<"y", "|", "N", "|", "n">> >>)}

\* Lines of the catalog files the look-ups run on: two entries and an entry
\* whose id is that of the first in upper case and padded.
TableLines ==
  {<<"x", "|", "X", "|", "n">>,
   <<"y", "|", "N", "|", "n">>,
   <<" ", "X", " ", "|", "a", "|", "b">>}

TableFiles ==
  {NoFile} \cup
  {File(l) : l \in UNION {[1..k -> TableLines] : k \in 0..MaxCatLines}}

\* Ids asked for: one of the files, the same in upper case and padded, one
\* that is in no file.
QueryIds == {<<"x">>, <<" ", "X">>, <<"b">>}

\* The look-up calls.
Queries ==
  {[op |-> "get_all", id |-> <<>>]} \cup
  {[op |-> o, id |-> i] : o \in {"exists", "get"}, i \in QueryIds}

\* Catalog files of up to MaxCatLines lines.
CatFiles ==
  {NoFile} \cup
  {File(l) : l \in UNION {[1..k -> CatLines] : k \in 0..MaxCatLines}}

(***************************************************************************)
(* Specifications.                                                         *)
(***************************************************************************)
\* The state after construction on one of files, with budget I/O failures to
\* come.
InitOn(files, budget) ==
  /\ \E f \in files :
       /\ fs = [path \in Paths |-> IF path = StorePath THEN f ELSE NoFile]
       /\ written = {f}
  /\ lock = FreeLock
  /\ proc = [p \in Procs |-> IdleProc]
  /\ calls = 0
  /\ faults = budget

InitWith(budget) == InitOn(InitFiles, budget)

\* The bot before on_ready: nothing loaded, no menu open; the requester holds
\* roles and the catalog file is one of files.
BotInit(files) ==
  /\ catfs \in files
  /\ cat = NewCatalog
  /\ member \in [roles : {RoleKinds}, giver : BOOLEAN]
  /\ ui = {}
  /\ perks = NoPerks
  /\ out = NoOut
  /\ events = 0

\* The store on its own: the rest of the bot stays as it is.
StoreOnly ==
  /\ catfs = NoFile
  /\ cat = NewCatalog
  /\ member = [roles |-> {}, giver |-> FALSE]
  /\ ui = {}
  /\ perks = NoPerks
  /\ out = NoOut
  /\ events = 0

Init == InitWith(MaxFaults) /\ StoreOnly

\* Store calls of overlapping coroutines, with I/O failures.
Next ==
  \E p \in Procs :
    \/ \E c \in ConcCalls : Begin(p, c, NoFile)
    \/ WakeUp(p)
    \/ ThreadRead(p)
    \/ ResumeRead(p)
    \/ ThreadReplace(p)
    \/ ResumeReplace(p)
    \/ ThreadUnlink(p)
    \/ ResumeUnlink(p)

Spec == Init /\ [][Next]_vars

\* Coroutine p can go on: the executor has its job or is through with it,
\* or the lock was handed to it.  This is when one of its steps is enabled.
CanStep(p) ==
  \/ proc[p].pc \in {"r_exec", "r_ready", "w_exec", "w_ready", "u_exec", "u_ready"}
  \/ lock.woken /\ lock.waiters # <<>> /\ Head(lock.waiters) = p

\* A coroutine takes its next step.
Step(p) ==
  \/ WakeUp(p)
  \/ ThreadRead(p)
  \/ ResumeRead(p)
  \/ ThreadReplace(p)
  \/ ResumeReplace(p)
  \/ ThreadUnlink(p)
  \/ ResumeUnlink(p)

\* Overlapping grants of one id to one player and look-ups of the player,
\* with I/O failures.
NextFair ==
  \E p \in Procs :
    \/ \E c \in {Call("add_achievement", <<"a">>, <<"n">>, <<"x">>, {}),
                 Call("get_player_achievements", <<"a">>, <<>>, <<>>, {})} :
         Begin(p, c, NoFile)
    \/ Step(p)

\* Under fair scheduling: the event loop runs every coroutine that is ready
\* to resume, and the executor runs every job it was given.  This is weak
\* fairness of the steps of each coroutine, written out.
FairSpec ==
  /\ Init
  /\ [][NextFair]_vars
  /\ \A p \in Procs : []<>(~CanStep(p)) \/ []<><<Step(p)>>_vars

\* A call is made only when no other call is in progress.
BeginAlone(c) ==
  /\ \A q \in Procs : proc[q].pc \in {"idle", "done"}
  /\ Begin(1, c, fs[StorePath])

\* Store calls made one after another, no I/O failure.
InitSeq == InitWith(0) /\ StoreOnly

NextSeq ==
  \/ \E c \in SeqCalls : BeginAlone(c)
  \/ ThreadRead(1)
  \/ ResumeRead(1)
  \/ ThreadReplace(1)
  \/ ResumeReplace(1)
  \/ MutateResult(1, <<"b">>)

SeqSpec == InitSeq /\ [][NextSeq]_vars

\* Store calls made one after another, with I/O failures.
NextFault ==
  \/ \E c \in FaultCalls : BeginAlone(c)
  \/ ThreadRead(1)
  \/ ResumeRead(1)
  \/ ThreadReplace(1)
  \/ ResumeReplace(1)
  \/ ThreadUnlink(1)
  \/ ResumeUnlink(1)

FaultSpec == Init /\ [][NextFault]_vars

\* catalog.load() is called.
CatalogLoad ==
  \E h \in load(Here) :
    Done("load", Result(h, IF h.exc THEN "raised" ELSE "returned", "none", "none"))

\* Look-ups by display name, one after another, no I/O failure.
InitNick == InitOn(NickFiles, 0) /\ StoreOnly

NextNick ==
  \/ \E c \in NickCalls : BeginAlone(c)
  \/ ThreadRead(1)
  \/ ResumeRead(1)

NickSpec == InitNick /\ [][NextNick]_vars

\* The catalog on its own: load() on the files of CatFiles.
InitCat ==
  /\ InitWith(MaxFaults)
  /\ fs[StorePath] = NoFile
  /\ BotInit(CatFiles)
  /\ ~member.giver

NextCat == CatalogLoad

CatSpec == InitCat /\ [][NextCat]_vars

\* The catalog and its look-ups: load(), look-ups, a look-up by one coroutine
\* while load() called by another is running, the caller of get_all()
\* changing the mapping it got, and the file deleted or rewritten on disk.
InitTable ==
  /\ InitWith(MaxFaults)
  /\ fs[StorePath] = NoFile
  /\ BotInit(TableFiles)
  /\ ~member.giver

NextTable ==
  LET \* The look-up q is over in world g: what it was and what it returned
      \* are kept.
      Answered(q, g) ==
        Result([g EXCEPT !.shown = <<q, g.ret>>],
               IF g.exc THEN "raised" ELSE "returned", "none", "none")
      \* The mapping t with one entry removed, replaced or added.
      Edited(t) ==
        {SubSeq(t, 1, i - 1) \o SubSeq(t, i + 1, Len(t)) : i \in 1..Len(t)} \cup
        {CatalogSet(t, AchDefinition(id, <<"b">>, <<>>)) : id \in {<<"x">>, <<"b">>}}
  IN
  \/ CatalogLoad
  \/ \E q \in Queries : \E g \in Ask(Here, q) : Done(q.op, Answered(q, g))
  \/ \E q \in Queries : \E l \in load(Here) :
       \E h \in LoadAwaits(Here) \cup {[l EXCEPT !.exc = FALSE]} :
         \E g \in Ask(h, q) :
           Done(q.op, [Answered(q, [l EXCEPT !.exc = g.exc, !.ret = g.ret])
                         EXCEPT !.reply = "load_ran"])
  \/ /\ out.op = "get_all" /\ out.st = "returned"
     /\ \E t \in Edited(out.shown[2]) :
          Done("edit_returned",
               Replied([Here EXCEPT
                          !.shown = <<out.shown[1], t>>,
                          !.cat = IF SharesTable THEN Catalog(@.loaded, t) ELSE @],
                       "none"))
  \/ \E f \in BotCatFiles \ {catfs} :
       Done("file_changed", Replied([Here EXCEPT !.catfs = f], "none"))

TableSpec == InitTable /\ [][NextTable]_vars

\* Grants and catalog deletions of several requesters that overlap.  A modal
\* callback that found its player absent is suspended before its upsert; the
\* lock is handed on in the order of arrival (asyncio.Lock), so the
\* suspended callbacks resume in the order in which they were suspended, and
\* what runs in between is what was waiting for the lock already: the first
\* store call of callbacks that started meanwhile, not the second one.  No
\* I/O failure.
InitGrant ==
  /\ InitOn({NoFile, File(<< <<"n", "|", "a", "|", "y">> >>)}, 0)
  /\ BotInit(BotCatFiles)
  /\ ~member.giver

NextGrant ==
  LET Suspended == Showing("CkeyInputModal.callback")
      First(p)  == \A q \in Suspended : \A i \in p.options, j \in q.options : i <= j
  IN
  \/ \E nick \in {<<"n">>, <<"b">>, <<"x">>} : \E r \in set_reach(Here, nick) :
       Ended("set_reach", r, MaxSteps)
  \/ \E m \in Showing("CkeyInputModal"), value \in {<<" ", "A">>, <<"b">>} :
       \E r \in CkeyInputModal_lookup(Here, m, value) :
         Ended("CkeyInputModal.callback", r, MaxSteps)
  \/ \E p \in Suspended :
       /\ First(p)
       /\ \E r \in CkeyInputModal_upsert(Here, p) :
            Ended("CkeyInputModal.callback", r, MaxSteps)
  \/ /\ Suspended = {}
     /\ \E v \in Showing("AchievementSelectView") : \E a \in v.options :
          \E r \in AchievementSelectView_on_select(Here, v, a) :
            Ended("AchievementSelectView.on_select", r, MaxSteps)
  \/ \E r \in delete_reachs(Here) : Ended("delete_reachs", r, MaxSteps)
  \/ /\ Suspended = {}
     /\ \E v \in Showing("DeleteReachSelectView") : \E a \in v.options :
          \E r \in DeleteReachSelectView_on_select(Here, v, a) :
            Ended("DeleteReachSelectView.on_select", r, MaxSteps)

GrantSpec == InitGrant /\ [][NextGrant]_vars

\* The achievements commands and their callbacks, for one requester, one
\* at a time, with I/O failures, while the guild may take the requester's
\* roles.
InitBot == InitWith(MaxFaults) /\ BotInit(BotCatFiles)

NextBot ==
  \/ CatalogLoad
  \/ \E nick \in HandlerNicks : \E r \in set_reach(Here, nick) : Done("set_reach", r)
  \/ \E nick \in HandlerNicks : \E r \in remove_reach(Here, nick) :
       Done("remove_reach", r)
  \/ \E nick \in HandlerNicks : \E r \in get_reachs(Here, nick) : Done("get_reachs", r)
  \/ \E r \in add_reachs(Here) : Done("add_reachs", r)
  \/ \E r \in edit_reachs(Here) : Done("edit_reachs", r)
  \/ \E r \in delete_reachs(Here) : Done("delete_reachs", r)
  \/ \E m \in Showing("CkeyInputModal"), value \in CkeyValues :
       \E r \in CkeyInputModal_callback(Here, m, value) :
         Done("CkeyInputModal.callback", r)
  \/ \E v \in Showing("AchievementSelectView") : \E a \in v.options :
       \E r \in AchievementSelectView_on_select(Here, v, a) :
         Done("AchievementSelectView.on_select", r)
  \/ \E v \in Showing("RemoveAchievementSelectView") : \E a \in v.options :
       \E r \in RemoveAchievementSelectView_on_select(Here, v, a) :
         Done("RemoveAchievementSelectView.on_select", r)
  \/ \E m \in Showing("AddReachModal"), e \in FormEntries :
       \E r \in AddReachModal_callback(Here, m, e.id, e.title, e.description) :
         Done("AddReachModal.callback", r)
  \/ \E v \in Showing("EditReachSelectView") : \E a \in v.options :
       \E r \in EditReachSelectView_on_select(Here, v, a) :
         Done("EditReachSelectView.on_select", r)
  \/ \E m \in Showing("EditReachModal"), e \in FormEntries : \E a \in m.options :
       \E r \in EditReachModal_callback(Here, m, a, e.title, e.description) :
         Done("EditReachModal.callback", r)
  \/ \E v \in Showing("DeleteReachSelectView") : \E a \in v.options :
       \E r \in DeleteReachSelectView_on_select(Here, v, a) :
         Done("DeleteReachSelectView.on_select", r)
  \/ \E k \in RoleKinds : Revoke(k)

BotSpec == InitBot /\ [][NextBot]_vars

\* The commands registered beside the achievements commands, and get_reachs.
NextUser ==
  \/ \E in_channel \in BOOLEAN, ckey \in CkeyArgs :
       \E r \in my_ckey(Here, in_channel, ckey) : Done("my_ckey", r)
  \/ \E in_channel \in BOOLEAN, color_ok \in BOOLEAN :
       \E r \in change_my_name_color(Here, in_channel, color_ok, OtherColor) :
         Done("change_my_name_color", r)
  \/ \E ds_nickname \in HandlerNicks :
       \E r \in add_disposable(Here, ds_nickname, 1, 2) :
         Done("add_disposable", r)
  \/ \E dice_ok \in BOOLEAN : \E r \in roll(Here, dice_ok) : Done("roll", r)
  \/ \E in_channel \in BOOLEAN : \E r \in top_play_time(Here, in_channel) :
       Done("top_play_time", r)
  \/ \E in_channel \in BOOLEAN : \E r \in top_balance(Here, in_channel) :
       Done("top_balance", r)
  \/ \E nick \in HandlerNicks : \E r \in get_reachs(Here, nick) : Done("get_reachs", r)
  \/ \E k \in RoleKinds : Revoke(k)

UserSpec == InitBot /\ [][NextUser]_vars

\* Catalog forms and deletions of several requesters that overlap.  Each
\* requester has the form or the menu open (the commands that open them
\* change nothing else); a submitted form is suspended at defer and a
\* deletion at the purge, and whatever is suspended may resume in any order.
\* The forms carry the same new id with three texts, one of them with the
\* field separator in its title; the edit form is that of x or y.  No I/O
\* failure.
InitEdit ==
  /\ InitOn({NoFile, File(<< <<"n", "|", "a", "|", "x">> >>)}, 0)
  /\ BotInit(BotCatFiles)
  /\ ~member.giver

NextEdit ==
  LET Texts == {AchDefinition(<<"b">>, <<"N">>, <<"n">>),
                AchDefinition(<<" ", "b">>, <<"#", "a">>, <<"b">>),
                AchDefinition(<<"b">>, <<"a", "|", "b">>, <<"n">>)}
      Listed == {<<"x">>, <<"y">>}
  IN
  \/ \E e \in Texts :
       \E r \in AddReachModal_check(Here, Component("AddReachModal", <<>>, <<>>, {}),
                                    e.id, e.title, e.description) :
         Ended("AddReachModal.callback", r, MaxParts)
  \/ \E p \in Showing("AddReachModal.callback") :
       \E r \in AddReachModal_write(Here, p) :
         Ended("AddReachModal.callback", r, MaxParts)
  \/ \E e \in Texts, a \in Listed :
       \E r \in EditReachModal_check(Here, Component("EditReachModal", <<>>, <<>>, {a}),
                                     a, e.title, e.description) :
         Ended("EditReachModal.callback", r, MaxParts)
  \/ \E p \in Showing("EditReachModal.callback") :
       \E r \in EditReachModal_write(Here, p) :
         Ended("EditReachModal.callback", r, MaxParts)
  \/ \E a \in Listed :
       \E r \in DeleteReachSelectView_rewrite(Here,
                  Component("DeleteReachSelectView", <<>>, <<>>, Listed), a) :
         Ended("DeleteReachSelectView.on_select", r, MaxParts)
  \/ \E p \in Showing("DeleteReachSelectView.on_select") : \E a \in p.options :
       \E r \in DeleteReachSelectView_purge(Close(Here, p), a) :
         Ended("DeleteReachSelectView.on_select", r, MaxParts)

EditSpec == InitEdit /\ [][NextEdit]_vars

(***************************************************************************)
(* Role events, cogs/role_events.py, on the sponsors file as text: a line  *)
(* is "name, ckey, ..." as my_ckey writes it (user_commands.py line 108).  *)
(***************************************************************************)
\* TRACKED_ROLES and BOOSTY_ROLE_ID, config.py lines 50 and 57.
TrackedRoles == {"t1", "t2"}

BoostyRole == "boosty"

\* str.startswith(prefix)
HasPrefix(s, prefix) ==
  Len(s) >= Len(prefix) /\ SubSeq(s, 1, Len(prefix)) = prefix

\* Mutant: the lines are matched by the name alone, without the comma.
filtered_lines_by_name(lines, username) ==
  SelectSeq(lines, LAMBDA line : ~HasPrefix(line, username))

\* filtered_lines, role_events.py line 75.
filtered_lines(lines, username) ==
  SelectSeq(lines, LAMBDA line : ~HasPrefix(line, username \o <<",">>))

\* Mutant: on_member_update handles the removed role first, then the added
\* one, without suspending.
on_member_update_removed_first(name, tracked_after) ==
  LET before          == member[name]
      after           == tracked_after \cup (before \ TrackedRoles)
      added_tracked   == (after \ before) \cap TrackedRoles
      removed_tracked == (before \ after) \cap TrackedRoles
  IN  /\ after # before
      /\ events < MaxEvents
      /\ events' = events + 1
      /\ \E ha \in (IF added_tracked = {} THEN {{}} ELSE {{a} : a \in added_tracked}),
            hr \in (IF removed_tracked = {} THEN {{}} ELSE {{r} : r \in removed_tracked}) :
           /\ member' = [member EXCEPT ![name] =
                           IF ha # {} THEN after \cup {BoostyRole}
                           ELSE IF hr # {} THEN after \ {BoostyRole} ELSE after]
           /\ perks' = IF hr # {} THEN [perks EXCEPT !.sponsors = filtered_lines(@, name)]
                       ELSE perks
           /\ out' = [NoOut EXCEPT !.op = "on_member_update", !.st = "returned",
                                   !.shown = <<name, ha, hr>>, !.perks0 = perks]
      /\ UNCHANGED <<fs, lock, proc, calls, faults, written, catfs, cat, ui>>

\* on_member_update, lines 94-108, for the member name whose tracked roles
\* the guild has changed to tracked_after, up to the await of
\* _handle_role_removed (line 108): of the added tracked roles one is
\* handled (line 100; _handle_role_added, lines 16-36, sends its messages
\* and adds the BOOSTY role), and of the removed ones one is kept to be
\* handled next.  The Discord calls go through.
on_member_update(name, tracked_after) ==
  LET before          == member[name]
      after           == tracked_after \cup (before \ TrackedRoles)
      added_tracked   == (after \ before) \cap TrackedRoles
      removed_tracked == (before \ after) \cap TrackedRoles
  IN  /\ after # before
      /\ events < MaxEvents
      /\ events' = events + 1
      /\ \E ha \in (IF added_tracked = {} THEN {{}} ELSE {{a} : a \in added_tracked}),
            hr \in (IF removed_tracked = {} THEN {{}} ELSE {{r} : r \in removed_tracked}) :
           /\ member' = [member EXCEPT ![name] =
                           IF ha # {} THEN after \cup {BoostyRole} ELSE after]
           /\ ui' = IF hr = {} THEN ui
                    ELSE ui \cup {Component("_handle_role_removed", <<>>, name,
                                            {<<"added", a>> : a \in ha}
                                            \cup {<<"removed", r>> : r \in hr})}
           /\ out' = [NoOut EXCEPT !.op = "on_member_update",
                                   !.st = IF hr = {} THEN "returned" ELSE "suspended",
                                   !.shown = <<name, ha, hr>>, !.perks0 = perks]
      /\ UNCHANGED <<fs, lock, proc, calls, faults, written, catfs, cat, perks>>

\* _handle_role_removed, lines 39-59, for the event p: the notice is sent,
\* _remove_sponsor_from_file (lines 62-91) takes the lock and, with no await
\* inside, reads the file, filters it and replaces it, or logs the exception
\* and leaves the file; then the BOOSTY role is taken away.
handle_role_removed(p) ==
  /\ events < MaxEvents
  /\ events' = events + 1
  /\ ui' = ui \ {p}
  /\ \E failed \in {"none"} \cup (IF faults > 0 /\ perks.sponsors # <<>>
                                 THEN {"sponsors_file"} ELSE {}) :
       /\ perks' = IF failed = "none"
                   THEN [perks EXCEPT !.sponsors = filtered_lines(@, p.nick)]
                   ELSE perks
       /\ faults' = IF failed = "none" THEN faults ELSE faults - 1
       /\ out' = [NoOut EXCEPT !.op = "_handle_role_removed", !.st = "returned",
                               !.failed = failed,
                               !.shown = <<p.nick,
                                           {r \in TrackedRoles : <<"added", r>> \in p.options},
                                           {r \in TrackedRoles : <<"removed", r>> \in p.options}>>,
                               !.perks0 = perks]
  /\ member' = [member EXCEPT ![p.nick] = @ \ {BoostyRole}]
  /\ UNCHANGED <<fs, lock, proc, calls, written, catfs, cat>>

\* Two members, one's name the start of the other's, with their roles; the
\* sponsors file holds lines of both and of a third name.
InitRole ==
  /\ InitOn({NoFile}, MaxFaults)
  /\ catfs = NoFile
  /\ cat = NewCatalog
  /\ ui = {}
  /\ out = NoOut
  /\ events = 0
  /\ \E f \in {<<>>,
               << <<"n", ",", " ", "a">>, <<"n", "b", ",", " ", "b">> >>,
               << <<"n", "b", ",", " ", "b">>, <<"n", ",", " ", "a">>,
                  <<"b", ",", " ", "n">> >>,
               << <<"b", ",", " ", "n">>, <<"n", ",", "b">>,
                  <<"n", "b", ",", " ", "b">>, <<"n", ",", " ", "a">> >>} :
       perks = [sponsors |-> f, disposable |-> <<>>]
  /\ \E roles \in SUBSET (TrackedRoles \cup {BoostyRole}) :
       member = (<<"n">> :> roles) @@ (<<"n", "b">> :> {"t1", BoostyRole})

NextRole ==
  \/ \E name \in DOMAIN member, tracked_after \in SUBSET TrackedRoles :
       on_member_update(name, tracked_after)
  \/ \E p \in Showing("_handle_role_removed") : handle_role_removed(p)

RoleSpec == InitRole /\ [][NextRole]_vars

(***************************************************************************)
(* The balance leaderboard's pager, cogs/db_commands.py lines 67-134.  The *)
(* view is a record among the open menus; a button callback that has       *)
(* started and is suspended at one of the awaits of _refresh is a record   *)
(* next to it.  The balance query takes a limit and an offset and gives    *)
(* the rows of one page, or raises.                                        *)
(***************************************************************************)
PAGE_SIZE == 10

\* The query of one page of the balance leaderboard, awaited at line 112:
\* the page's rows, named here by the offset asked for, or an exception
\* while faults last.
get_top_players_by_balance(limit, offset) ==
  {[raised |-> FALSE, rows |-> offset \div limit]}
  \cup (IF faults > 0 THEN {[raised |-> TRUE, rows |-> 0]} ELSE {})

\* TopBalanceView.__init__, lines 70-90.
TopBalanceView(total_count) ==
  LET total_pages == IF (total_count + PAGE_SIZE - 1) \div PAGE_SIZE > 1
                     THEN (total_count + PAGE_SIZE - 1) \div PAGE_SIZE ELSE 1
  IN  [kind          |-> "TopBalanceView",
       total_pages   |-> total_pages,
       current_page  |-> 0,
       prev_disabled |-> TRUE,
       next_disabled |-> total_pages <= 1]

\* _update_buttons, lines 92-94.
update_buttons(v) ==
  [v EXCEPT !.prev_disabled = v.current_page <= 0,
            !.next_disabled = v.current_page >= v.total_pages - 1]

\* What a button callback leaves behind when it is over.
Clicked(op, reply, shown) ==
  [NoOut EXCEPT !.op = op, !.st = "returned", !.reply = reply, !.shown = shown]

\* _on_prev (lines 96-100) and _on_next (lines 102-106) on the view v, up to
\* the await of defer (line 109): the guard and the step of current_page.
on_button(v, op) ==
  LET at_edge == IF op = "_on_prev" THEN v.current_page <= 0
                 ELSE v.current_page >= v.total_pages - 1
      moved   == IF op = "_on_prev" THEN v.current_page - 1
                 ELSE v.current_page + 1
  IN  /\ events < MaxSteps
      /\ events' = events + 1
      /\ IF at_edge
         THEN /\ ui' = ui
              /\ out' = Clicked(op, "none", None)
         ELSE /\ ui' = (ui \ {v})
                         \cup {[v EXCEPT !.current_page = moved],
                               [kind |-> "_refresh", op |-> op, n |-> events,
                                at |-> "defer", offset |-> 0, raised |-> FALSE,
                                page |-> 0]}
              /\ out' = [NoOut EXCEPT !.op = op, !.st = "suspended"]
      /\ UNCHANGED <<fs, lock, proc, calls, faults, written, catfs, cat, member, perks>>

\* _refresh for the callback c once defer has returned, lines 110-112: the
\* offset is taken from current_page as it is now and the query is awaited.
refresh_query(v, c) ==
  /\ c.at = "defer"
  /\ events < MaxSteps
  /\ events' = events + 1
  /\ ui' = (ui \ {c})
             \cup {[c EXCEPT !.at = "query", !.offset = v.current_page * PAGE_SIZE]}
  /\ out' = [NoOut EXCEPT !.op = c.op, !.st = "suspended"]
  /\ UNCHANGED <<fs, lock, proc, calls, faults, written, catfs, cat, member, perks>>

\* _refresh once the query is over, lines 113-117 and 118-123: the embed is
\* built for current_page as it is now, the buttons are updated and the
\* edit of the message is awaited; after an exception the buttons are
\* updated, every item is disabled and the edit of the message is awaited.
refresh_show(v, c) ==
  /\ c.at = "query"
  /\ events < MaxSteps
  /\ events' = events + 1
  /\ \E r \in get_top_players_by_balance(PAGE_SIZE, c.offset) :
       /\ faults' = IF r.raised THEN faults - 1 ELSE faults
       /\ ui' = (ui \ {v, c})
                  \cup {IF r.raised
                        THEN [update_buttons(v) EXCEPT !.prev_disabled = TRUE,
                                                       !.next_disabled = TRUE]
                        ELSE update_buttons(v),
                        [c EXCEPT !.at = "edit", !.raised = r.raised,
                                  !.page = v.current_page]}
  /\ out' = [NoOut EXCEPT !.op = c.op, !.st = "suspended"]
  /\ UNCHANGED <<fs, lock, proc, calls, written, catfs, cat, member, perks>>

\* _refresh once the message is edited, lines 117 and 124-127: the callback
\* is over.
refresh_done(c) ==
  /\ c.at = "edit"
  /\ events < MaxSteps
  /\ events' = events + 1
  /\ ui' = ui \ {c}
  /\ out' = Clicked(c.op, IF c.raised THEN "failed" ELSE "refreshed",
                    <<c.offset \div PAGE_SIZE, c.page>>)
  /\ UNCHANGED <<fs, lock, proc, calls, faults, written, catfs, cat, member, perks>>

\* top_balance has sent the first page with the view (lines 209-216) for a
\* leaderboard of one, two or three pages.
InitPage ==
  /\ InitOn({NoFile}, MaxFaults)
  /\ catfs = NoFile
  /\ cat = NewCatalog
  /\ perks = NoPerks
  /\ out = NoOut
  /\ events = 0
  /\ member = [roles |-> {}, giver |-> FALSE]
  /\ \E total_count \in {1, PAGE_SIZE + 1, 2 * PAGE_SIZE + 5} :
       ui = {TopBalanceView(total_count)}

NextPage ==
  \/ \E v \in Showing("TopBalanceView"), op \in {"_on_prev", "_on_next"} :
       on_button(v, op)
  \/ \E v \in Showing("TopBalanceView"), c \in Showing("_refresh") :
       refresh_query(v, c)
  \/ \E v \in Showing("TopBalanceView"), c \in Showing("_refresh") :
       refresh_show(v, c)
  \/ \E c \in Showing("_refresh") : refresh_done(c)

PageSpec == InitPage /\ [][NextPage]_vars

(***************************************************************************)
(* Properties.                                                             *)
(***************************************************************************)
\* The table the store file holds, as every operation reads it.
Stored(f) == ParseLines(f.lines)

\* The achievement set stored for ckey ck in file f (empty without a record).
StoredSet(f, ck) ==
  IF HasKey(Stored(f), ck) THEN Lookup(Stored(f), ck).achs ELSE {}

IsAdd(p)    == proc[p].call.name = "add_achievement"
IsRemove(p) == proc[p].call.name = "remove_achievement"
IsPurge(p)  == proc[p].call.name = "remove_achievement_from_all_players"

ReturnedBy(p) == proc[p].pc = "done" /\ proc[p].res.st = "returned"
RaisedBy(p)   == proc[p].pc = "done" /\ proc[p].res.st = "raised"

\* Coroutine p has read the store file for a call that goes on to write it,
\* and its rename has not happened yet.
InCycle(p) ==
  \/ proc[p].pc \in {"w_wait", "w_exec"}
  \/ /\ proc[p].pc = "r_ready"
     /\ ~proc[p].ioerr
     /\ Apply(proc[p].call, ParseLines(proc[p].buf.lines)).write

\* C1: between a call's read of the store file and the same call's write, no
\* other call's read or write of the file takes place.
C1_NoAccessInsideCycle ==
  [][\A p \in Procs : InCycle(p) =>
       \A q \in Procs \ {p} : ~(ThreadRead(q) \/ ThreadReplace(q))]_vars

\* Exactly two calls were made, by p and q.
OnlyCalls(p, q) == p # q /\ calls = 2 /\ {proc[p].n, proc[q].n} = {1, 2}

\* The store file holds achievement a for the player of p's call.
HoldsAdded(p) ==
  NormalizeAch(proc[p].call.ach)
    \in StoredSet(fs[StorePath], NormalizeCkey(proc[p].call.ckey))

\* C2: when add_achievement ran concurrently for two different players and
\* both calls returned true, the store file holds both players' records with
\* the achievement added.
C2_NoLostAdd ==
  \A p, q \in Procs :
    ( /\ OnlyCalls(p, q)
      /\ IsAdd(p) /\ IsAdd(q)
      /\ NormalizeCkey(proc[p].call.ckey) # NormalizeCkey(proc[q].call.ckey)
      /\ ReturnedBy(p) /\ proc[p].res.val = TRUE
      /\ ReturnedBy(q) /\ proc[q].res.val = TRUE )
    => HoldsAdded(p) /\ HoldsAdded(q)

\* C4: of two overlapping add_achievement calls for the same player and the
\* same id, at most one returns true.
C4_AtMostOneGrant ==
  \A p, q \in Procs :
    ( /\ OnlyCalls(p, q)
      /\ IsAdd(p) /\ IsAdd(q)
      /\ NormalizeCkey(proc[p].call.ckey) = NormalizeCkey(proc[q].call.ckey)
      /\ NormalizeAch(proc[p].call.ach) = NormalizeAch(proc[q].call.ach)
      /\ ReturnedBy(p) /\ ReturnedBy(q) )
    => ~(proc[p].res.val = TRUE /\ proc[q].res.val = TRUE)

\* The player and the id of p's call, normalized.
CallCkey(p) == NormalizeCkey(proc[p].call.ckey)
CallAch(p)  == NormalizeAch(proc[p].call.ach)

\* The store file when p's call started and now, as tables.
Before(p) == Stored(proc[p].pre)
After     == Stored(fs[StorePath])

\* C3: for add_achievement and remove_achievement calls made one after
\* another, each call leaves the player's stored set equal to the set before
\* it with the id inserted / deleted; add returns true exactly when the id
\* was not in the set before, remove exactly when it was.
C3_SetSemantics ==
  \A p \in Procs :
    ReturnedBy(p) /\ (IsAdd(p) \/ IsRemove(p)) =>
      LET before == StoredSet(proc[p].pre, CallCkey(p))
          after  == StoredSet(fs[StorePath], CallCkey(p))
      IN  IF IsAdd(p)
          THEN /\ proc[p].res.val = (CallAch(p) \notin before)
               /\ after = before \cup {CallAch(p)}
          ELSE /\ proc[p].res.val = (CallAch(p) \in before)
               /\ after = before \ {CallAch(p)}

\* C5: add_achievement on a player who holds the id returns false, writes
\* nothing and leaves the file as it was; on a player without a record it
\* returns true and creates the record holding exactly that id.
C5_AddNoOpOrCreate ==
  \A p \in Procs :
    ReturnedBy(p) /\ IsAdd(p) =>
      /\ CallAch(p) \in StoredSet(proc[p].pre, CallCkey(p)) =>
           /\ proc[p].res.val = FALSE
           /\ proc[p].nwrites = 0
           /\ fs[StorePath] = proc[p].pre
      /\ ~HasKey(Before(p), CallCkey(p)) =>
           /\ proc[p].res.val = TRUE
           /\ HasKey(After, CallCkey(p))
           /\ Lookup(After, CallCkey(p)).achs = {CallAch(p)}

\* C6: remove_achievement returns false and leaves the file unchanged when
\* the player has no record or the record lacks the id; it returns true only
\* when the id was present, and then the record still exists, without the id
\* and with all its other ids.
C6_RemoveContract ==
  \A p \in Procs :
    ReturnedBy(p) /\ IsRemove(p) =>
      LET had == CallAch(p) \in StoredSet(proc[p].pre, CallCkey(p))
      IN  /\ ~had =>
               /\ proc[p].res.val = FALSE
               /\ proc[p].nwrites = 0
               /\ fs[StorePath] = proc[p].pre
          /\ proc[p].res.val = TRUE =>
               /\ had
               /\ HasKey(After, CallCkey(p))
               /\ Lookup(After, CallCkey(p)).achs =
                    Lookup(Before(p), CallCkey(p)).achs \ {CallAch(p)}

\* The records of table d that hold id a.
Holders(d, a) == {i \in 1..Len(d) : a \in d[i].achs}

\* C7: remove_achievement_from_all_players(x) returns the number of records
\* that held x; afterwards no record holds x, the records that did not hold
\* x are unchanged, no record is deleted, and the file was renamed once when
\* the count is positive and not written when it is 0.
C7_PurgeContract ==
  \A p \in Procs :
    ReturnedBy(p) /\ IsPurge(p) =>
      LET hit == Holders(Before(p), CallAch(p))
      IN  /\ proc[p].res.val = Cardinality(hit)
          /\ Holders(After, CallAch(p)) = {}
          /\ Len(After) = Len(Before(p))
          /\ \A i \in 1..Len(Before(p)) :
               /\ After[i].ckey = Before(p)[i].ckey
               /\ i \notin hit => After[i] = Before(p)[i]
          /\ proc[p].nwrites = (IF hit = {} THEN 0 ELSE 1)
          /\ hit = {} => fs[StorePath] = proc[p].pre

\* C7's case: a purge that stripped the id from one record and left another
\* record, which did not hold it, in place.
C7_Witness ==
  \E p \in Procs :
    /\ ReturnedBy(p) /\ IsPurge(p)
    /\ proc[p].res.val = 1
    /\ Len(Before(p)) = 2
    /\ proc[p].nwrites = 1

\* C8: every read of the store file sees the file as it was at start-up or
\* the complete content some finished _write_all installed.
C8_ReadsSeeWholeFiles ==
  \A p \in Procs : proc[p].read => proc[p].buf \in written

\* C8's case: a call read what another call's rename had installed.
C8_Witness ==
  \E p, q \in Procs :
    /\ p # q
    /\ proc[q].nwrites = 1
    /\ proc[p].read
    /\ proc[p].buf \notin InitFiles
    /\ proc[p].buf = File(FormatLines(proc[q].players))

\* C9: until a call's rename has happened the store file holds the version
\* the call found (so a stop at any such step keeps it); a call that fails
\* leaves the lock free and its temporary file deleted unless the unlink
\* itself failed; and a writing call returns normally only after its rename.
C9_FailedWriteKeepsFile ==
  \A p \in Procs :
    /\ proc[p].pc # "idle" /\ proc[p].nwrites = 0 => fs[StorePath] = proc[p].pre
    /\ RaisedBy(p) =>
         /\ lock = FreeLock
         /\ fs[TmpPath(proc[p].n)].exists => proc[p].cleanup = "failed"
    /\ ReturnedBy(p) /\ Apply(proc[p].call, Before(p)).write => proc[p].nwrites = 1

\* C9's case: a write failed after its temporary file was created, the
\* temporary file is gone and the store file is the one the call found.
C9_Witness ==
  \E p \in Procs :
    /\ RaisedBy(p)
    /\ proc[p].cleanup = "done"
    /\ proc[p].pre.exists
    /\ fs[StorePath] = proc[p].pre
    /\ ~fs[TmpPath(proc[p].n)].exists

\* C10: the table read back from the file a call wrote is the table the call
\* handed to _write_all: same ckeys, same sets, same display names.
C10_RoundTrip ==
  \A p \in Procs :
    ReturnedBy(p) /\ proc[p].nwrites = 1 =>
      Range(After) = Range(proc[p].players)

IsUpsert(p) == proc[p].call.name = "upsert_player"

\* C11: the record a returned add_achievement or upsert_player call wrote is
\* in the store file ever after, whatever other store calls run, overlapping
\* ones included.
C11_RecordNeverRemoved ==
  \A p \in Procs :
    ReturnedBy(p) /\ (IsAdd(p) \/ IsUpsert(p)) /\ proc[p].nwrites = 1 =>
      HasKey(After, CallCkey(p))

\* The ckey a reader finds on line raw (the empty string on a skipped line).
ReadCkey(raw) == IF ParseLine(raw).skip THEN <<>> ELSE ParseLine(raw).ckey

\* C12: in the store file a call wrote, line i holds the i-th record of the
\* call's table and reads back with that record's ckey; that ckey is not
\* empty and in normalized form, and no two lines read back with the same
\* ckey.
C12_UniqueNormalizedCkeys ==
  \A p \in Procs :
    ReturnedBy(p) /\ proc[p].nwrites = 1 =>
      LET d     == proc[p].players
          lines == fs[StorePath].lines
      IN  /\ Len(lines) = Len(d)
          /\ \A i \in 1..Len(lines) :
               /\ d[i].ckey # <<>>
               /\ d[i].ckey = NormalizeCkey(d[i].ckey)
               /\ ReadCkey(lines[i]) = d[i].ckey
          /\ \A i, j \in 1..Len(lines) :
               i # j => ReadCkey(lines[i]) # ReadCkey(lines[j])

\* normalize of the claims: trimmed and in lower case.
Canon(str) == Lower(Strip(str))

\* Call c with its ckey and its id spelled in normalized form.
CanonCall(c) == [c EXCEPT !.ckey = Canon(@), !.ach = Canon(@)]

IsGet(p) == proc[p].call.name = "get_player_achievements"

\* C13: a get_player_achievements, add_achievement or remove_achievement
\* call returns what the same call with the ckey and the id in normalized
\* form returns on the same file, and leaves the file that call leaves.
C13_CaseAndBlanksIgnored ==
  \A p \in Procs :
    ReturnedBy(p) /\ (IsGet(p) \/ IsAdd(p) \/ IsRemove(p)) /\ ~proc[p].mutated =>
      LET o == Apply(CanonCall(proc[p].call), Before(p))
      IN  /\ proc[p].res.val = o.ret
          /\ proc[p].nwrites = (IF o.write THEN 1 ELSE 0)
          /\ After = (IF o.write THEN Stored(File(FormatLines(o.players)))
                                 ELSE Before(p))

\* C13's case: add_achievement(' A', 'n', 'X ') returned true and the record
\* of 'a' holds 'x'.
C13_Witness ==
  \E p \in Procs :
    /\ ReturnedBy(p) /\ IsAdd(p)
    /\ proc[p].call.ckey # Canon(proc[p].call.ckey)
    /\ proc[p].call.ach # Canon(proc[p].call.ach)
    /\ proc[p].res.val = TRUE
    /\ <<"x">> \in StoredSet(fs[StorePath], <<"a">>)

\* C14: get_player_achievements returns None exactly when the store file has
\* no record for the normalized ckey, and otherwise the record's set, the
\* empty set for a record without ids; this holds for every call, whatever a
\* caller did to a set an earlier call returned.
C14_NoneIffNoRecord ==
  \A p \in Procs :
    ReturnedBy(p) /\ IsGet(p) /\ ~proc[p].mutated =>
      LET ck == Canon(proc[p].call.ckey)
      IN  /\ (proc[p].res.val = None) = ~HasKey(Before(p), ck)
          /\ HasKey(Before(p), ck) =>
               proc[p].res.val = <<Lookup(Before(p), ck).achs>>
          /\ fs[StorePath] = proc[p].pre

\* C14's case: a known player without achievements is answered with the
\* empty set, which is not None.
C14_Witness ==
  \E p \in Procs :
    /\ ReturnedBy(p) /\ IsGet(p) /\ ~proc[p].mutated
    /\ HasKey(Before(p), Canon(proc[p].call.ckey))
    /\ proc[p].res.val = <<{}>>
    /\ proc[p].res.val # None

\* The fields of a catalog line as the claims describe a valid line: not
\* blank, not a comment, three fields, and an id that matches [a-z0-9_]+
\* once trimmed and lowered.
Fields(raw) == Split(Strip(raw), "|")

ValidLine(raw) ==
  /\ Strip(raw) # <<>>
  /\ Head(Strip(raw)) # "#"
  /\ Len(Fields(raw)) = 3
  /\ Canon(Fields(raw)[1]) # <<>>
  /\ \A i \in 1..Len(Canon(Fields(raw)[1])) : Canon(Fields(raw)[1])[i] \in IdChars

\* The definition a valid line stands for.
LineDef(raw) ==
  AchDefinition(Canon(Fields(raw)[1]), Strip(Fields(raw)[2]), Strip(Fields(raw)[3]))

\* The valid lines of file f, by position.
ValidAt(f) == {i \in 1..Len(f.lines) : ValidLine(f.lines[i])}

LoadReturned == out.op = "load" /\ out.st = "returned"

\* C17 as stated: load() raises only on an I/O failure, and the table it
\* leaves has as many entries as the file has valid lines, one per valid line.
C17_OneEntryPerValidLine ==
  /\ out.op = "load" /\ out.st = "raised" => faults < MaxFaults
  /\ LoadReturned =>
       /\ Len(cat.table) = Cardinality(ValidAt(catfs))
       /\ \A i \in ValidAt(catfs) : LineDef(catfs.lines[i]) \in Range(cat.table)

\* C17, amended: load() raises only on an I/O failure, and the table it
\* leaves has one entry per id that occurs on a valid line, holding the title
\* and description of the last valid line with that id; the entries are in
\* the order in which the ids first occur.
C17_OneEntryPerValidId ==
  /\ out.op = "load" /\ out.st = "raised" => faults < MaxFaults
  /\ LoadReturned =>
       LET V       == ValidAt(catfs)
           IdAt(i) == LineDef(catfs.lines[i]).id
           Last(i) == \A j \in V : IdAt(j) = IdAt(i) => j <= i
           First(i) == \A j \in V : IdAt(j) = IdAt(i) => i <= j
       IN  /\ cat.loaded
           /\ Len(cat.table) = Cardinality({IdAt(i) : i \in V})
           /\ Range(cat.table) = {LineDef(catfs.lines[i]) : i \in {j \in V : Last(j)}}
           /\ \A i, j \in {k \in V : First(k)} :
                i < j =>
                  \E m, n \in 1..Len(cat.table) :
                    m < n /\ cat.table[m].id = IdAt(i) /\ cat.table[n].id = IdAt(j)

\* C17's case: load() returned on a file that holds two valid lines with the
\* same id and a line with four fields.
C17_Witness ==
  /\ LoadReturned
  /\ catfs.exists
  /\ Cardinality(ValidAt(catfs)) = 2
  /\ Len(cat.table) = 1
  /\ \E i \in 1..Len(catfs.lines) :
       /\ ~ValidLine(catfs.lines[i])
       /\ Len(Fields(catfs.lines[i])) > 3

\* The callbacks of the modals and menus that set_reach, remove_reach,
\* add_reachs, edit_reachs and delete_reachs open.
CallbackOps ==
  {"CkeyInputModal.callback", "AchievementSelectView.on_select",
   "RemoveAchievementSelectView.on_select", "AddReachModal.callback",
   "EditReachSelectView.on_select", "EditReachModal.callback",
   "DeleteReachSelectView.on_select"}

\* The achievements commands.
CommandOps ==
  {"set_reach", "remove_reach", "get_reachs", "add_reachs", "edit_reachs",
   "delete_reachs"}

\* C15: a command or callback of the achievements cog that ran for a
\* requester holding no allow-listed role at that moment has left the store
\* file and the catalog file as they were, and a callback has answered with
\* the refusal.
C15_CallbacksRecheckRole ==
  (out.op \in CommandOps \cup CallbackOps /\ "achievements" \notin out.roles)
    => /\ fs[StorePath] = out.store0
       /\ catfs = out.catfs0
       /\ out.op \in CallbackOps => out.reply = "denied"

\* The role went after delete_reachs had shown its menu, and the selection
\* was refused.
C15_Witness ==
  /\ out.op = "DeleteReachSelectView.on_select"
  /\ "achievements" \notin out.roles
  /\ out.reply = "denied"
  /\ \E v \in ui : v.kind = "DeleteReachSelectView" /\ v.options # {}
  /\ catfs.exists

\* The commands the command surface leaves open to every requester, and the
\* commands it reserves to role holders.
OpenOps ==
  {"get_reachs", "top_play_time", "top_balance", "my_ckey",
   "change_my_name_color", "roll"}

GatedOps ==
  {"set_reach", "remove_reach", "add_reachs", "edit_reachs", "delete_reachs",
   "add_disposable"}

\* C16: an open command never refuses a requester for the roles held, and a
\* reserved command run for a requester who holds no role at all changes
\* neither the store file, the catalog file, the sponsors file nor the
\* disposable file.
C16_OpenAndGatedCommands ==
  /\ out.op \in OpenOps => out.reply \notin {"denied", "not_sponsor"}
  /\ (out.op \in GatedOps /\ out.roles = {})
       => /\ fs[StorePath] = out.store0
          /\ catfs = out.catfs0
          /\ perks = out.perks0

\* The callbacks that rewrite the catalog file.
EditingOps ==
  {"AddReachModal.callback", "EditReachModal.callback",
   "DeleteReachSelectView.on_select"}

\* C18: once a callback that rewrote the catalog file is over, whatever it
\* answered, the catalog object is loaded and its table is what parsing the
\* file as it now is gives.
C18_CatalogReloadedAfterEdit ==
  (out.op \in EditingOps /\ catfs # out.catfs0)
    => /\ cat.loaded
       /\ cat.table = ParseCatalog(catfs.lines)

\* C19: a command or callback in which a call on the store file, the catalog
\* file, the sponsors or disposable file or the database raised has answered
\* with the generic retry-later message, which carries no exception text.
C19_FaultsGetGenericReply ==
  out.failed # "none" => out.reply = "retry_later"

\* C20: a command or callback answers that the player is not in the database
\* only when the query ran and found no row.
C20_DbFailureIsNotNotFound ==
  out.reply = "not_in_db" => ~out.dberr

\* A display name the file format gives back as it was written.
PlainName(name) ==
  name = Strip(name) /\ ~StartsWith(name, "#") /\ "|" \notin Range(name)

\* C21 (as stated): after add_achievement with a display name the file
\* format carries, the record's stored name is the old one when the supplied
\* name is empty and the record existed, and the supplied one otherwise.
C21_NameReplacedWhenSupplied ==
  \A p \in Procs :
    (ReturnedBy(p) /\ IsAdd(p) /\ PlainName(proc[p].call.nick)) =>
      /\ HasKey(After, CallCkey(p))
      /\ Lookup(After, CallCkey(p)).nick =
           IF HasKey(Before(p), CallCkey(p)) /\ proc[p].call.nick = <<>>
           THEN Lookup(Before(p), CallCkey(p)).nick
           ELSE proc[p].call.nick

\* C21 (amended): an add_achievement call that returns true has written the
\* record's line with the name read from the file when the supplied name is
\* empty and the record existed, and with the supplied name as given
\* otherwise; a call that returns false has left the file, and so every
\* stored name, as it was.
C21_NameWrittenWhenAdded ==
  \A p \in Procs :
    (ReturnedBy(p) /\ IsAdd(p)) =>
      IF proc[p].res.val = TRUE
      THEN FormatLine(Rec(CallCkey(p),
                          IF HasKey(Before(p), CallCkey(p)) /\ proc[p].call.nick = <<>>
                          THEN Lookup(Before(p), CallCkey(p)).nick
                          ELSE proc[p].call.nick,
                          StoredSet(proc[p].pre, CallCkey(p)) \cup {CallAch(p)}))
             \in Range(fs[StorePath].lines)
      ELSE fs[StorePath] = proc[p].pre

\* An id was added with an empty display name to a record that had a name.
C21_Witness ==
  \E p \in Procs :
    /\ ReturnedBy(p) /\ IsAdd(p) /\ proc[p].res.val = TRUE
    /\ proc[p].call.nick = <<>>
    /\ HasKey(Before(p), CallCkey(p))
    /\ Lookup(Before(p), CallCkey(p)).nick # <<>>
    /\ HasKey(After, CallCkey(p))
    /\ Lookup(After, CallCkey(p)).nick = Lookup(Before(p), CallCkey(p)).nick

\* C22: after upsert_player the record of the normalized ckey holds exactly
\* the supplied display name and the supplied set, normalized, whatever it
\* held before, and the other records are those of the file before the call.
C22_UpsertReplacesWholesale ==
  \A p \in Procs :
    (ReturnedBy(p) /\ IsUpsert(p)) =>
      /\ HasKey(After, CallCkey(p))
      /\ Lookup(After, CallCkey(p)) =
           Rec(CallCkey(p), proc[p].call.nick, NormalizeAchSet(proc[p].call.achs))
      /\ Keys(After) = Keys(Before(p)) \cup {CallCkey(p)}
      /\ \A ck \in Keys(Before(p)) \ {CallCkey(p)} :
           Lookup(After, ck) = Lookup(Before(p), ck)

IsByNick(p) == proc[p].call.name = "get_player_achievements_by_discord_nickname"

\* The lines of file f that carry a record, and the record of line i.
RecordLines(f) == {i \in 1..Len(f.lines) : ~ParseLine(f.lines[i]).skip}

LineRec(f, i) == ParseLine(f.lines[i])

LastLineOf(f, i) ==
  CHOOSE k \in RecordLines(f) :
    /\ LineRec(f, k).ckey = LineRec(f, i).ckey
    /\ \A j \in RecordLines(f) : LineRec(f, j).ckey = LineRec(f, i).ckey => j <= k

C24_UnknownIdsKeptAndShown ==
  /\ (out.op = "get_reachs" /\ out.reply = "list") =>
       /\ out.shown # None
       /\ HasKey(Stored(out.store0), out.shown[1])
       /\ out.shown[2] = StoredSet(out.store0, out.shown[1]) \cap Ids(cat.table)
       /\ out.shown[3] = StoredSet(out.store0, out.shown[1]) \ Ids(cat.table)
  /\ (out.op = "AchievementSelectView.on_select" /\ out.reply = "ok") =>
       \E ck \in Keys(After) :
         StoredSet(fs[StorePath], ck) \ StoredSet(out.store0, ck) # {}

\* get_reachs listed an id that no catalog entry describes.
C24_Witness ==
  /\ out.op = "get_reachs" /\ out.reply = "list"
  /\ out.shown[3] # {}
  /\ out.shown[3] \subseteq StoredSet(fs[StorePath], out.shown[1])
  /\ cat.loaded

LookupOps == {"get_all", "exists", "get"}

\* The answer of look-up q on a loaded catalog whose table is t.
AnswerOn(q, t) ==
  (CHOOSE g \in Ask([Here EXCEPT !.cat = Catalog(TRUE, t)], q) : TRUE).ret

AnswersFromEmptyTable ==
  \A q \in Queries : \A g \in Ask(Here, q) :
    /\ ~g.exc
    /\ g.cat = cat
    /\ g.ret = AnswerOn(q, <<>>)
    /\ g.ret = IF q.op = "exists" THEN FALSE ELSE <<>>

\* C26: when load(), called directly or by the first look-up, hits an I/O
\* failure while it reads the file, its caller gets the exception, the table
\* is empty and counts as loaded, and every later look-up answers from the
\* empty table.
C26_FailedLoadLeavesEmptyTable ==
  [][(events' # events /\ faults' < faults) =>
       /\ out'.op \in LookupOps \cup {"load"}
       /\ out'.reply # "load_ran" => out'.st = "raised"
       /\ cat' = Catalog(TRUE, <<>>)
       /\ AnswersFromEmptyTable']_vars

\* load() raised on a file of two entries.
C26_Witness ==
  /\ out.op = "load" /\ out.st = "raised"
  /\ catfs.exists /\ Len(ParseCatalog(catfs.lines)) = 2
  /\ cat.table = <<>>

\* C27: a load() that finds no catalog file returns, leaves the catalog
\* loaded with an empty table, and get_all() then returns the empty mapping
\* and exists(id) false for every id.
C27_MissingFileLoadsEmpty ==
  (out.op = "load" /\ ~out.catfs0.exists) =>
    /\ out.st = "returned"
    /\ cat = Catalog(TRUE, <<>>)
    /\ \A g \in get_all(Here) : ~g.exc /\ g.ret = <<>>
    /\ \A id \in QueryIds : \A g \in exists(Here, id) : ~g.exc /\ g.ret = FALSE

\* load() found no catalog file and returned, though an I/O failure could
\* still have happened.
C27_Witness ==
  /\ out.op = "load" /\ out.st = "returned"
  /\ ~out.catfs0.exists /\ ~catfs.exists
  /\ cat.loaded /\ cat.table = <<>>
  /\ faults > 0

Outcomes(q) == {<<g.exc, g.ret>> : g \in Ask(Here, q)}

\* C29: exists and get give the same answers for two ids that differ only in
\* case and surrounding blanks, and exists(id) is true exactly when get(id)
\* returns a definition; the definition is the table's entry for the trimmed,
\* lower-cased id.
C29_LookupsNormalizeTheId ==
  /\ \A id, variant \in QueryIds :
       Lower(Strip(id)) = Lower(Strip(variant)) =>
         \A o \in {"exists", "get"} :
           Outcomes([op |-> o, id |-> id]) = Outcomes([op |-> o, id |-> variant])
  /\ \A id \in QueryIds :
       /\ {<<r[1], r[2] # None>> : r \in Outcomes([op |-> "get", id |-> id])}
            = Outcomes([op |-> "exists", id |-> id])
       /\ \A r \in Outcomes([op |-> "get", id |-> id]) :
            r[2] # None =>
              /\ Len(r[2]) = 1
              /\ r[2][1].id = Lower(Strip(id))
  /\ (out.op = "exists" /\ out.st = "returned" /\ out.reply = "none") =>
       out.shown[2] = (Lower(Strip(out.shown[1].id)) \in Ids(cat.table))

\* exists() was asked for an id in upper case and padded and answered true.
C29_Witness ==
  /\ out.op = "exists" /\ out.st = "returned"
  /\ out.shown[1].id = <<" ", "X">>
  /\ out.shown[2] = TRUE
  /\ <<FALSE, <<>>>> \notin Outcomes([op |-> "get", id |-> <<"x">>])

\* No record of the store file f holds the id.
HeldByNone(f, id) == Holders(Stored(f), id) = {}

\* C31: when a deletion from the catalog has reported success for an id, no
\* record of the store holds the id, and while the id stays out of the
\* catalog no later callback (a grant chosen from a menu opened before the
\* deletion included) puts it into a record.
C31_DeletedIdStaysPurged ==
  \A id \in {<<"x">>, <<"y">>} :
    /\ (/\ out.op = "DeleteReachSelectView.on_select" /\ out.reply = "ok"
        /\ HasLineOf(out.catfs0.lines, id) /\ ~HasLineOf(catfs.lines, id))
       => HeldByNone(fs[StorePath], id)
    /\ (/\ out.op # "none"
        /\ ~HasLineOf(out.catfs0.lines, id) /\ ~HasLineOf(catfs.lines, id)
        /\ cat.loaded /\ id \notin Ids(cat.table)
        /\ HeldByNone(out.store0, id))
       => HeldByNone(fs[StorePath], id)

EntryLinesOf(lines, id) ==
  {i \in 1..Len(lines) :
     /\ ~ParseCatalogLine(lines[i]).skip
     /\ ParseCatalogLine(lines[i]).def.id = id}

\* C33: the catalog file never holds two entry lines with the same id, after
\* any add-to-catalog operations, two overlapping submissions of the form
\* for the same id included.
C33_NoTwoLinesForOneId ==
  \A id \in {<<"x">>, <<"y">>, <<"b">>} :
    Cardinality(EntryLinesOf(catfs.lines, id)) <= 1

C35_SuccessMeansLoaded ==
  LET before  == out.catfs0.lines
      after   == catfs.lines
      Written == {after[i] : i \in {j \in 1..Len(after) :
                                      j > Len(before) \/ after[j] # before[j]}}
      Loaded  == {FormatCatalogLine(cat.table[i].id, cat.table[i].title,
                                    cat.table[i].description) :
                    i \in 1..Len(cat.table)}
  IN  (/\ out.op \in {"AddReachModal.callback", "EditReachModal.callback"}
       /\ out.reply = "ok") =>
        /\ Written \subseteq Loaded
        /\ out.op = "EditReachModal.callback" =>
             /\ Len(after) = Len(before)
             /\ \E id \in {<<"x">>, <<"y">>} :
                  \A i \in 1..Len(before) :
                    ~IsLineOf(before[i], id) => after[i] = before[i]

\* C36: after a remove_achievement that returned true the record of the
\* normalized ckey holds the display name passed in the call, also when it
\* is empty, and the other records are those of the file before the call.
C36_RemoveStoresPassedName ==
  \A p \in Procs :
    (ReturnedBy(p) /\ IsRemove(p) /\ proc[p].res.val = TRUE) =>
      /\ HasKey(After, CallCkey(p))
      /\ Lookup(After, CallCkey(p)).nick = proc[p].call.nick
      /\ Keys(After) = Keys(Before(p))
      /\ \A ck \in Keys(Before(p)) \ {CallCkey(p)} :
           Lookup(After, ck) = Lookup(Before(p), ck)

\* Coroutine p is inside an "async with _file_lock" block / waits to enter one.
Holding(p) == proc[p].pc \in {"r_exec", "r_ready", "w_exec", "w_ready", "u_exec", "u_ready"}

Waiting(p) == proc[p].pc \in {"r_wait", "w_wait"}

\* C37: the store lock is held exactly while one coroutine is inside a block
\* of _read_all or _write_all, so it is free whenever none is, after a
\* return and after an exception alike; the coroutine that holds it is never
\* among those that wait for it; and under fair scheduling every store call
\* that was started completes.
C37_LockReleasedAndCallsComplete ==
  /\ [](/\ lock.locked <=> \E p \in Procs : Holding(p)
        /\ \A p, q \in Procs : Holding(p) /\ Holding(q) => p = q
        /\ \A p \in Procs : Waiting(p) <=> p \in Range(lock.waiters)
        /\ lock.woken => ~lock.locked /\ lock.waiters # <<>>)
  /\ \A p \in Procs : (proc[p].pc \notin {"idle", "done"}) ~> (proc[p].pc = "done")

\* A call raised out of _write_all after its clean-up and the call that
\* waited behind it has returned; the lock is free.
C37_Witness ==
  \E p, q \in Procs :
    /\ RaisedBy(p) /\ proc[p].cleanup # "none"
    /\ ReturnedBy(q) /\ proc[q].nwrites > 0
    /\ ~lock.locked /\ lock.waiters = <<>>

\* C38: _remove_sponsor_from_file for a member leaves the lines of the file
\* it finds whose name field is not the member's, in their order, and none
\* of the member's; when the rewrite fails the file is as it was.  Removals
\* for several members run one after another on the file the last one left.
C38_MembersLinesRemoved ==
  out.op = "_handle_role_removed" =>
    perks.sponsors =
      IF out.failed = "none"
      THEN SelectSeq(out.perks0.sponsors,
                     LAMBDA line : Split(line, ",")[1] # out.shown[1])
      ELSE out.perks0.sponsors

\* The lines of n were removed while a removal for nb was waiting: the line
\* of nb is still there.
C38_Witness ==
  /\ out.op = "_handle_role_removed" /\ out.failed = "none"
  /\ out.shown[1] = <<"n">>
  /\ \E i \in 1..Len(out.perks0.sponsors) : HasPrefix(out.perks0.sponsors[i], <<"n", ",">>)
  /\ \E i \in 1..Len(perks.sponsors) : HasPrefix(perks.sponsors[i], <<"n", "b", ",">>)
  /\ \E p \in ui : p.nick = <<"n", "b">>
  /\ Len(perks.sponsors) < Len(out.perks0.sponsors)

====
